---------------------------- MODULE Spec2Model ----------------------------
(***************************************************************************)
(* Reference Index & Typed-Cache Resolution Engine of the Sins language    *)
(* server: the Identifier Index (data-manager.ts), the Typed Cache Store   *)
(* (cache.ts, manifest.ts), the File Enumerator (WorkspaceManager), the    *)
(* Pointer Classifier and the request handlers of SinsLanguageServer.      *)
(*                                                                         *)
(* File names are sequences of tokens; the token "." is the dot and every  *)
(* other token is a run of characters without a dot, so that endsWith,     *)
(* split(".") and path.extname are computed on the name as the code does.  *)
(* A path is the sequence of the names below the workspace root.           *)
(***************************************************************************)
EXTENDS Naturals, Integers, Sequences, FiniteSets, TLC

VARIABLES
    ws,         \* the workspace on disk: status of every file of Layout
    fileIndex,  \* IndexManager.fileIndex: identifier -> sequence of paths
    cache,      \* CacheManager.cache: category -> set of identifiers
    manifest,   \* EntityManifestManager.cache: category -> set of identifiers
    rpc,        \* position of rebuildIndex
    extIdx,     \* rebuildIndex: index of the extension whose scan is awaited
    cpc,        \* position of each task of CacheManager.loadCache
    mpc,        \* position of each task of EntityManifestManager.loadCache
    lastCall,   \* the last call made on a Typed Cache Store, with the store before it
    ccache,     \* completion CacheManager.cache: the four sets the server reads
    target,     \* getContext: the AST node passed in, 0 when there is none
    matches,    \* getContext: what getMatchingSchemas returns
    gpc,        \* position of getContext
    result,     \* what getContext returned
    workspaceFolder, \* server: whether initialize gave a root URI
    isInitialized,   \* server: SinsLanguageServer.isInitialized
    ipc,        \* server: position of the handshake and of onInitialized
    lpc,        \* server: position of the localization and texture loads
    kpc,        \* server: position of each task of completionManager.loadFromWorkspace
    xpc,        \* server: position of the rebuildIndex that is not awaited
    docOpen,    \* whether the document is open
    docVer,     \* the version of its content, 0 before it was ever opened
    vals,       \* validateTextDocument in flight, by the version it parsed
    initVal,    \* the version onInitialized is awaiting the validation of
    published,  \* the version the diagnostics shown were computed from, 0 for none
    maxPublished, \* the newest version diagnostics were published for since the last close
    req,        \* the definition or completion request in flight
    unreadyRead, \* the store first read before the first rebuild was complete
    vpc,        \* validation: position of validateTextDocument
    schemaDiags, \* validation: what doValidation answered
    sent,       \* validation: the diagnostics sent, if any were
    removed,    \* validation: the identifier taken out of the cache since, if any
    lfs,        \* outside a rebuild: the file system the calls run over
    llang,      \* loadLocalisations alone: the language code passed
    locpc,      \* loadLocalisations alone: its position
    scratch,    \* CompletionManager.set, the set its four tasks share
    qpc,        \* joint population: position of each task of loadFromWorkspace
    editorLang,          \* the language selected on the editor side
    currentLanguageCode, \* SinsLanguageServer.currentLanguageCode
    langReqs,   \* the language requests sent and not yet resolved
    locCache,   \* LocalizationManager.cache (knownKeys is the union of its keys)
    texCache,   \* TextureManager.cache
    fkind,      \* the request being answered: hover, definition or completion
    fnode,      \* the node at the position of the request
    fctx,       \* what getContext returned for it
    fpc,        \* the position of the request handler
    answer,     \* what the handler returned
    wext,       \* findFiles alone: the suffix asked for
    wfound,     \* findFiles alone: the paths returned
    wpc,        \* findFiles alone: its position
    sreq,       \* schemaRequestService: the request, with what the file system holds for it
    sres,       \* schemaRequestService: what the promise settled with
    spc,        \* schemaRequestService: its position
    opc,        \* overlapping rebuilds: the position of each call of rebuildIndex
    wsFolders,  \* client: Workspace.workspaceFolders
    clients,    \* client: the keys of ClientManager.clients
    running,    \* client: how many started clients of each folder are not stopped
    defaultClient,          \* client: whether ClientManager.defaultClient is set
    sortedWorkspaceFolders  \* client: ClientManager.sortedWorkspaceFolders

rebuildVars == <<ws, fileIndex, cache, manifest, rpc, extIdx, cpc, mpc>>

classifyVars == <<target, matches, gpc, result>>

\* what the rebuild of IndexManager leaves alone
serverVars == <<workspaceFolder, isInitialized, ipc, lpc, kpc, xpc, docOpen, docVer,
                vals, initVal, published, maxPublished, req, unreadyRead>>

validateVars == <<vpc, schemaDiags, sent, removed>>

localiseVars == <<lfs, llang, locpc>>

populateVars == <<scratch, qpc>>

languageVars == <<editorLang, currentLanguageCode, langReqs>>

featureVars == <<languageVars, locCache, texCache, fkind, fnode, fctx, fpc, answer>>

findVars == <<wext, wfound, wpc>>

schemaVars == <<sreq, sres, spc>>

\* the groups of the specifications that follow findFiles
overlapVars == <<opc>>

clientVars == <<wsFolders, clients, running, defaultClient, sortedWorkspaceFolders>>

laterVars == <<schemaVars, overlapVars, clientVars>>

notRebuild == <<lastCall, ccache, classifyVars, serverVars, validateVars, localiseVars, populateVars, featureVars, findVars, laterVars>>

vars == <<rebuildVars, lastCall, ccache, classifyVars, serverVars, validateVars,
          localiseVars, populateVars, featureVars, findVars, laterVars>>

---------------------------------------------------------------------------
(* Names and paths *)

Dot == "."

N2(a, b) == <<a, Dot, b>>

Last(s) == s[Len(s)]

IsSuffix(s, t) == Len(s) <= Len(t) /\ SubSeq(t, Len(t) - Len(s) + 1, Len(t)) = s

\* String.prototype.endsWith
endsWith(name, suffix) == IsSuffix(suffix, name)

DotPositions(name) == {i \in 1..Len(name) : name[i] = Dot}

Min(S) == CHOOSE x \in S : \A y \in S : x <= y

Max(S) == CHOOSE x \in S : \A y \in S : x >= y

\* path.basename(p)
basename(p) == Last(p)

\* fileName.split(".")[0]
SplitFirst(name) ==
    IF DotPositions(name) = {} THEN name
    ELSE SubSeq(name, 1, Min(DotPositions(name)) - 1)

\* path.extname(name): from the last dot on; "" when there is no dot or the
\* only dot is the first character
extname(name) ==
    IF DotPositions(name) = {} \/ Max(DotPositions(name)) <= 1 THEN <<>>
    ELSE SubSeq(name, Max(DotPositions(name)), Len(name))

\* path.basename(p, path.extname(p))
Stem(p) == SubSeq(basename(p), 1, Len(basename(p)) - Len(extname(basename(p))))

SeqToSet(s) == {s[i] : i \in 1..Len(s)}

---------------------------------------------------------------------------
(* The file system seen by the File Enumerator.  A file system is a       *)
(* sequence of entries in readdir order; an entry names its directory.    *)

searchMaxDepth == 5

\* an ignore list of one name
ignoreGit == {<<Dot, "git">>}

ignoreFolders == {<<Dot, "git">>, <<Dot, "vscode">>, <<Dot, "vs">>, <<"node_modules">>}

File(dir, name, json, keys, hasIds, ids) ==
    [dir |-> dir, name |-> name, isDir |-> FALSE, readable |-> TRUE,
     json |-> json, keys |-> keys, hasIds |-> hasIds, ids |-> ids]

Plain(dir, name) == File(dir, name, FALSE, <<>>, FALSE, <<>>)

Dir(dir, name, readable) ==
    [dir |-> dir, name |-> name, isDir |-> TRUE, readable |-> readable,
     json |-> FALSE, keys |-> <<>>, hasIds |-> FALSE, ids |-> <<>>]

\* fs.promises.readdir(directory, { withFileTypes: true })
ReadDir(fs, directory) == SelectSeq(fs, LAMBDA e : e.dir = directory)

\* a readdir that lists every directory
CanListAny(fs, directory) == TRUE

\* readdir throws for a directory that cannot be listed
CanList(fs, directory) ==
    \/ directory = <<>>
    \/ \E i \in 1..Len(fs) :
          /\ fs[i].isDir /\ fs[i].readable
          /\ Append(fs[i].dir, fs[i].name) = directory

RECURSIVE findFiles(_, _, _, _)
RECURSIVE WalkEntries(_, _, _, _, _)

WalkEntries(fs, list, directory, fileExtension, depth) ==
    IF list = <<>> THEN <<>>
    ELSE LET entry == Head(list)
             fullPath == Append(directory, entry.name)
             here == IF entry.isDir
                     THEN IF entry.name \notin ignoreFolders
                          THEN findFiles(fs, fullPath, fileExtension, depth + 1)
                          ELSE <<>>
                     ELSE IF endsWith(entry.name, fileExtension)
                          THEN <<fullPath>>
                          ELSE <<>>
         IN  here \o WalkEntries(fs, Tail(list), directory, fileExtension, depth)

\* a findFiles without the test of the depth
findFilesDeep(fs, directory, fileExtension, depth) ==
    IF ~CanList(fs, directory) THEN <<>>
    ELSE WalkEntries(fs, ReadDir(fs, directory), directory, fileExtension, depth)

\* WorkspaceManager.findFiles
findFiles(fs, directory, fileExtension, depth) ==
    IF depth > searchMaxDepth THEN <<>>
    ELSE IF ~CanList(fs, directory) THEN <<>>
    ELSE WalkEntries(fs, ReadDir(fs, directory), directory, fileExtension, depth)

\* The entry a path names, or NoEntry
NoEntry == [dir |-> <<>>, name |-> <<>>, isDir |-> TRUE, readable |-> FALSE,
            json |-> FALSE, keys |-> <<>>, hasIds |-> FALSE, ids |-> <<>>]

EntryAt(fs, p) ==
    IF \E i \in 1..Len(fs) : Append(fs[i].dir, fs[i].name) = p
    THEN fs[CHOOSE i \in 1..Len(fs) : Append(fs[i].dir, fs[i].name) = p]
    ELSE NoEntry

---------------------------------------------------------------------------
(* The workspaces of the rebuild: the layout below with at most MaxFaults  *)
(* faults, a fault being a missing file, a file that is not JSON ("bad")   *)
(* or a JSON object without members ("bare").                              *)

MaxFaults == 1

Entities == << <<"entities">> >>

Textures == << <<"textures">> >>

Git == << <<Dot, "git">> >>

Layout ==
    << File(<<>>, N2("en", "localized_text"), TRUE,
            << <<"ship_name">>, <<"title">> >>, FALSE, <<>>),
       File(<<>>, N2("unit", "entity_manifest"), TRUE,
            << <<"ids">> >>, TRUE, << <<"fighter">> >>),
       File(<<>>, N2("unit_skin", "entity_manifest"), TRUE,
            << <<"ids">> >>, TRUE, << <<"fighter_skin">>, <<"fighter">> >>),
       File(<<>>, N2("unit_item", "entity_manifest"), TRUE,
            << <<"ids">> >>, TRUE, << <<"laser">> >>),
       Dir(<<>>, <<"entities">>, TRUE),
       Plain(Entities, N2("fighter", "unit")),
       Plain(Entities, <<"fighter", Dot, "v2", Dot, "unit">>),
       Plain(Entities, N2("fighter", "unit_skin")),
       Plain(Entities, N2("laser", "unit_item")),
       Plain(Entities, N2("fighter", "mesh")),
       Dir(<<>>, <<"textures">>, TRUE),
       Plain(Textures, N2("hull", "dds")),
       Plain(Textures, N2("hull", "png")),
       Dir(<<>>, <<Dot, "git">>, TRUE),
       Plain(Git, N2("stale", "unit")) >>

\* the files whose presence or content varies from workspace to workspace
Varying == {N2("en", "localized_text"), N2("unit", "entity_manifest"),
            N2("unit_skin", "entity_manifest"), N2("unit_item", "entity_manifest"),
            N2("fighter", "unit"), <<"fighter", Dot, "v2", Dot, "unit">>}

Faultable == {i \in 1..Len(Layout) : Layout[i].name \in Varying /\ Layout[i].dir # Git}

FaultKinds(i) == IF Layout[i].json THEN {"missing", "bad", "bare"} ELSE {"missing"}

Status(F, g) == [i \in 1..Len(Layout) |-> IF i \in F THEN g[i] ELSE "ok"]

Workspaces ==
    UNION {{Status(F, g) : g \in {h \in [F -> {"missing", "bad", "bare"}] :
                                      \A i \in F : h[i] \in FaultKinds(i)}} :
           F \in {G \in SUBSET Faultable : Cardinality(G) <= MaxFaults}}

\* the workspace without a fault
Intact == Status({}, <<>>)

Variant(e, st) ==
    IF st = "bad"
    THEN [e EXCEPT !.json = FALSE, !.keys = <<>>, !.hasIds = FALSE, !.ids = <<>>]
    ELSE IF st = "bare"
    THEN [e EXCEPT !.keys = <<>>, !.hasIds = FALSE, !.ids = <<>>]
    ELSE e

RECURSIVE BuildFS(_, _)
BuildFS(w, i) ==
    IF i > Len(Layout) THEN <<>>
    ELSE (IF w[i] = "missing" THEN <<>> ELSE <<Variant(Layout[i], w[i])>>)
         \o BuildFS(w, i + 1)

\* the file system of workspace w
FS(w) == BuildFS(w, 1)

\* the same, tabulated once for every workspace
FSOf == [w \in Workspaces |-> FS(w)]

rootPath == <<>>

Lang == "en"

---------------------------------------------------------------------------
(* Typed Cache Store: CacheManager (cache.ts) *)

EmptyMap == [k \in {} |-> {}]

\* the members of a category, without creating it
Members(map, k) == IF k \in DOMAIN map THEN map[k] ELSE {}

\* CacheManager.get: the map after the call (the category exists from then on)
CacheGetMap(map, k) ==
    [kk \in DOMAIN map \cup {k} |-> IF kk \in DOMAIN map THEN map[kk] ELSE {}]

\* CacheManager.get: the set returned
CacheGet(map, k) == CacheGetMap(map, k)[k]

\* a set() that adds the items to the members the category already had
CacheSetMerge(map, k, items) ==
    [kk \in DOMAIN map \cup {k} |->
        IF kk = k THEN Members(map, k) \cup items ELSE map[kk]]

\* a set() whose insertion loop misses one item
CacheSetShort(map, k, items) ==
    [kk \in DOMAIN map \cup {k} |->
        IF kk = k
        THEN (IF items = {} THEN {} ELSE items \ {CHOOSE x \in items : TRUE})
        ELSE map[kk]]

\* CacheManager.set: clear the category, then add every item
CacheSet(map, k, items) ==
    [kk \in DOMAIN map \cup {k} |-> IF kk = k THEN items ELSE map[kk]]

\* CacheManager.clear
CacheClear(map) == [k \in DOMAIN map |-> {}]

RECURSIVE SumSizes(_, _)
SumSizes(map, K) ==
    IF K = {} THEN 0
    ELSE LET k == CHOOSE x \in K : TRUE
         IN  Cardinality(map[k]) + SumSizes(map, K \ {k})

\* CacheManager.size
CacheSize(map) == SumSizes(map, DOMAIN map)

\* the fixed categories of the completion CacheManager
CompletionKeys == {"textures", "localized_text", "brushes", "unit_skins"}

\* completion CacheManager.cache as constructed
EmptyCompletion == [k \in CompletionKeys |-> {}]

\* completion CacheManager.getCache()[k]
getCache(store, k) == store[k]

\* a setCache() that keeps the members the category already had
setCacheMerge(store, k, items) == [store EXCEPT ![k] = store[k] \cup items]

\* completion CacheManager.setCache: clear the category, then add every item
setCache(store, k, items) == [store EXCEPT ![k] = items]

---------------------------------------------------------------------------
(* Population of the categories *)

ScanCats == {"texture", "brush", "unit_skin", "unit_item", "unit", "mesh"}

CacheTasks == {"localized_text"} \cup ScanCats

ManifestTasks == {"unit", "unit_skin", "unit_item"}

\* the extension each extension-scan loader passes to findFiles
ScanExt(k) ==
    CASE k = "brush"     -> <<Dot, "png">>
      [] k = "unit_item" -> <<Dot, "unit_item">>
      [] k = "unit_skin" -> <<Dot, "unit_skin">>
      [] k = "unit"      -> <<Dot, "unit">>
      [] k = "texture"   -> <<Dot, "dds">>
      [] k = "mesh"      -> <<Dot, "mesh">>

\* loaders none of which adds the bare file name
AddsBareNameNever(k) == FALSE

\* loadBrushes and loadTextures add the bare file name too
AddsBareName(k) == k \in {"brush", "texture"}

\* the set a loader of cache.ts builds from the files findFiles returned
ScanItems(fs, k) ==
    UNION {IF AddsBareName(k) THEN {basename(f), Stem(f)} ELSE {Stem(f)} :
           f \in SeqToSet(findFiles(fs, rootPath, ScanExt(k), 0))}

\* CacheManager.loadLocalisations: files found for `${lang}.localized_text`
LocFiles(fs, lang) == findFiles(fs, rootPath, N2(lang, "localized_text"), 0)

\* JSON.parse(await readFile(files[0])) succeeds
Parses(fs, files) == files # <<>> /\ EntryAt(fs, files[1]).json

LocKeys(fs, lang) == SeqToSet(EntryAt(fs, LocFiles(fs, lang)[1]).keys)

\* EntityManifestManager.loadEntityManifestIds
ManifestFiles(fs, k) == findFiles(fs, rootPath, N2(k, "entity_manifest"), 0)

\* a loader that stops after the first element of ids
ManifestIdsFirst(fs, k) ==
    LET content == EntryAt(fs, ManifestFiles(fs, k)[1])
    IN  IF content.hasIds /\ content.ids # <<>> THEN {content.ids[1]} ELSE {}

ManifestIds(fs, k) ==
    LET content == EntryAt(fs, ManifestFiles(fs, k)[1])
    IN  IF content.hasIds THEN SeqToSet(content.ids) ELSE {}

---------------------------------------------------------------------------
(* Identifier Index: IndexManager (data-manager.ts) *)

\* IndexManager.fileExtensions, in declaration order
fileExtensions ==
    <<
       <<Dot, "mod_meta_data">>, <<Dot, "localized_text">>, <<Dot, "uniforms">>,
       <<Dot, "ability">>, <<Dot, "action_data_source">>, <<Dot, "buff">>,
       <<Dot, "entity_manifest">>, <<Dot, "exotic">>, <<Dot, "flight_pattern">>,
       <<Dot, "formation">>, <<Dot, "npc_reward">>, <<Dot, "player">>,
       <<Dot, "player_color_group">>, <<Dot, "player_icon">>, <<Dot, "player_portrait">>,
       <<Dot, "research_subject">>, <<Dot, "unit_item">>, <<Dot, "unit_skin">>,
       <<Dot, "unit">>, <<Dot, "weapon">>, <<Dot, "named_colors">>,
       <<Dot, "death_sequence">>, <<Dot, "death_sequence_group">>, <<Dot, "beam_effect">>,
       <<Dot, "exhaust_trail_effect">>, <<Dot, "particle_effect">>, <<Dot, "shield_effect">>,
       <<Dot, "font">>, <<Dot, "gravity_well_props">>, <<Dot, "button_style">>,
       <<Dot, "drop_box_style">>, <<Dot, "gui">>, <<Dot, "label_style">>,
       <<Dot, "list_box_style">>, <<Dot, "reflect_box_style">>, <<Dot, "scroll_bar_style">>,
       <<Dot, "text_entry_box_style">>, <<Dot, "brush">>, <<Dot, "mesh_material">>,
       <<Dot, "skybox">>, <<Dot, "sound">>, <<Dot, "texture_animation">>,
       <<Dot, "gdpr_accept_data">>, <<Dot, "playtime_message">>, <<Dot, "welcome_message">>,
       <<Dot, "start_mode">>
    >>

EmptyIndex == [k \in {} |-> <<>>]

\* an addToIndex that keys a file by its whole base name
addToIndexName(index, filePath) ==
    LET identifier == basename(filePath)
    IN  [k \in DOMAIN index \cup {identifier} |->
            IF k = identifier
            THEN Append(IF k \in DOMAIN index THEN index[k] ELSE <<>>, filePath)
            ELSE index[k]]

\* an addToIndex that keeps one path per identifier
addToIndexUnique(index, filePath) ==
    LET identifier == SplitFirst(basename(filePath))
    IN  [k \in DOMAIN index \cup {identifier} |->
            IF k = identifier THEN <<filePath>> ELSE index[k]]

\* IndexManager.addToIndex
addToIndex(index, filePath) ==
    LET identifier == SplitFirst(basename(filePath))
    IN  [k \in DOMAIN index \cup {identifier} |->
            IF k = identifier
            THEN Append(IF k \in DOMAIN index THEN index[k] ELSE <<>>, filePath)
            ELSE index[k]]

RECURSIVE AddAll(_, _)
\* for (const file of files) this.addToIndex(file)
AddAll(index, files) ==
    IF files = <<>> THEN index
    ELSE AddAll(addToIndex(index, Head(files)), Tail(files))

\* IndexManager.getPaths: the list, or undefined
Undefined == "undefined"

getPaths(index, identifier) ==
    IF identifier \in DOMAIN index THEN index[identifier] ELSE Undefined

---------------------------------------------------------------------------
(* IndexManager.rebuildIndex and the tasks it launches.  Every action is   *)
(* the code between two suspension points of one task.                     *)

AllNone(T) == [t \in T |-> "none"]

Launched(T) == [t \in T |-> "find"]

Settled(pcs) == \A t \in DOMAIN pcs : pcs[t] \in {"none", "done", "failed"}

\* no rebuild and no task of a rebuild is in flight
Idle == rpc \in {"idle", "done", "rejected"} /\ Settled(cpc) /\ Settled(mpc)

RebuildInit ==
    /\ ws = Intact
    /\ fileIndex = EmptyIndex
    /\ cache = EmptyMap
    /\ manifest = EmptyMap
    /\ rpc = "idle"
    /\ extIdx = 0
    /\ cpc = AllNone(CacheTasks)
    /\ mpc = AllNone(ManifestTasks)

\* rebuildIndex up to its first await; the workspace it runs over is w
StartRebuild(w) ==
    /\ Idle
    /\ ws' = w
    /\ manifest' = CacheClear(manifest)
    /\ cache' = CacheClear(cache)
    /\ fileIndex' = EmptyIndex
    /\ rpc' = "index"
    /\ extIdx' = 1
    /\ cpc' = AllNone(CacheTasks)
    /\ mpc' = AllNone(ManifestTasks)
    /\ UNCHANGED notRebuild

\* resumption after findFiles(rootPath, extension): index the files, then
\* scan the next extension or call cacheManager.loadCache
IndexStep ==
    /\ rpc = "index"
    /\ fileIndex' = AddAll(fileIndex, findFiles(FSOf[ws], rootPath, fileExtensions[extIdx], 0))
    /\ IF extIdx < Len(fileExtensions)
       THEN /\ extIdx' = extIdx + 1
            /\ UNCHANGED <<rpc, cpc>>
       ELSE /\ extIdx' = 0
            /\ rpc' = "cache"
            /\ cpc' = Launched(CacheTasks)
    /\ UNCHANGED <<ws, cache, manifest, mpc>>
    /\ UNCHANGED notRebuild

\* loadBrushes, loadUnitItems, loadUnitSkins, loadUnits, loadTextures, loadMeshes
LoadScan(k) ==
    /\ cpc[k] = "find"
    /\ cache' = CacheSet(cache, k, ScanItems(FSOf[ws], k))
    /\ cpc' = [cpc EXCEPT ![k] = "done"]
    /\ UNCHANGED <<ws, fileIndex, manifest, rpc, extIdx, mpc>>
    /\ UNCHANGED notRebuild

\* loadLocalisations, resumption after findFiles: an array is truthy, so
\* readFile(localized_text[0]) is called whatever was found
LocFind ==
    /\ cpc["localized_text"] = "find"
    /\ cpc' = [cpc EXCEPT !["localized_text"] = "read"]
    /\ UNCHANGED <<ws, fileIndex, cache, manifest, rpc, extIdx, mpc>>
    /\ UNCHANGED notRebuild

\* loadLocalisations, resumption after readFile
LocRead ==
    /\ cpc["localized_text"] = "read"
    /\ IF Parses(FSOf[ws], LocFiles(FSOf[ws], Lang))
       THEN /\ cache' = CacheSet(cache, "localized_text", LocKeys(FSOf[ws], Lang))
            /\ cpc' = [cpc EXCEPT !["localized_text"] = "done"]
       ELSE /\ cpc' = [cpc EXCEPT !["localized_text"] = "failed"]
            /\ UNCHANGED cache
    /\ UNCHANGED <<ws, fileIndex, manifest, rpc, extIdx, mpc>>
    /\ UNCHANGED notRebuild

\* Promise.all of CacheManager.loadCache resolved: rebuildIndex goes on to
\* entityManifestManager.loadCache
CacheJoin ==
    /\ rpc = "cache"
    /\ \A t \in CacheTasks : cpc[t] = "done"
    /\ rpc' = "manifest"
    /\ mpc' = Launched(ManifestTasks)
    /\ UNCHANGED <<ws, fileIndex, cache, manifest, extIdx, cpc>>
    /\ UNCHANGED notRebuild

\* Promise.all of CacheManager.loadCache rejected: the await in rebuildIndex
\* throws, rebuildIndex rejects; the other tasks keep running
CacheReject ==
    /\ rpc = "cache"
    /\ \E t \in CacheTasks : cpc[t] = "failed"
    /\ rpc' = "rejected"
    /\ UNCHANGED <<ws, fileIndex, cache, manifest, extIdx, cpc, mpc>>
    /\ UNCHANGED notRebuild

\* loadEntityManifestIds, resumption after findFiles
ManifestFind(k) ==
    /\ mpc[k] = "find"
    /\ mpc' = [mpc EXCEPT ![k] = "read"]
    /\ UNCHANGED <<ws, fileIndex, cache, manifest, rpc, extIdx, cpc>>
    /\ UNCHANGED notRebuild

\* loadEntityManifestIds, resumption after readFile(manifest[0])
ManifestRead(k) ==
    /\ mpc[k] = "read"
    /\ IF Parses(FSOf[ws], ManifestFiles(FSOf[ws], k))
       THEN /\ manifest' = CacheSet(manifest, k, ManifestIds(FSOf[ws], k))
            /\ mpc' = [mpc EXCEPT ![k] = "done"]
       ELSE /\ mpc' = [mpc EXCEPT ![k] = "failed"]
            /\ UNCHANGED manifest
    /\ UNCHANGED <<ws, fileIndex, cache, rpc, extIdx, cpc>>
    /\ UNCHANGED notRebuild

\* Promise.all of EntityManifestManager.loadCache resolved: rebuildIndex returns
ManifestJoin ==
    /\ rpc = "manifest"
    /\ \A t \in ManifestTasks : mpc[t] = "done"
    /\ rpc' = "done"
    /\ UNCHANGED <<ws, fileIndex, cache, manifest, extIdx, cpc, mpc>>
    /\ UNCHANGED notRebuild

\* Promise.all of EntityManifestManager.loadCache rejected
ManifestReject ==
    /\ rpc = "manifest"
    /\ \E t \in ManifestTasks : mpc[t] = "failed"
    /\ rpc' = "rejected"
    /\ UNCHANGED <<ws, fileIndex, cache, manifest, extIdx, cpc, mpc>>
    /\ UNCHANGED notRebuild



RebuildNext ==
    \/ \E w \in Workspaces : StartRebuild(w)
    \/ IndexStep
    \/ \E k \in ScanCats : LoadScan(k)
    \/ LocFind
    \/ LocRead
    \/ CacheJoin
    \/ CacheReject
    \/ \E k \in ManifestTasks : ManifestFind(k)
    \/ \E k \in ManifestTasks : ManifestRead(k)
    \/ ManifestJoin
    \/ ManifestReject



\* no call made yet on a store
NoCall == [op |-> "none", cat |-> "none", items |-> {}, repeat |-> FALSE]

CallInit == lastCall = NoCall

CompletionInit == ccache = EmptyCompletion

\* no classification requested
ClassifyIdle ==
    /\ target = 0
    /\ matches = <<>>
    /\ gpc = "idle"
    /\ result = "none"

MaxVersion == 2

Versions == 1..MaxVersion

\* the server as constructed, before initialize
ServerIdle ==
    /\ workspaceFolder = FALSE
    /\ isInitialized = FALSE
    /\ ipc = "created"
    /\ lpc = [m \in {"localization", "texture"} |-> "none"]
    /\ kpc = [k \in CompletionKeys |-> "none"]
    /\ xpc = "none"
    /\ docOpen = FALSE
    /\ docVer = 0
    /\ vals = [v \in Versions |-> "none"]
    /\ initVal = 0
    /\ published = 0
    /\ maxPublished = 0
    /\ req = "none"
    /\ unreadyRead = "none"

\* nothing sent
NotSent == [published |-> FALSE, diagnostics |-> <<>>]

\* no validation requested
ValidateIdle ==
    /\ vpc = "idle"
    /\ schemaDiags = <<>>
    /\ sent = NotSent
    /\ removed = "none"

\* no call of loadLocalisations alone
LocaliseIdle ==
    /\ lfs = <<>>
    /\ llang = Lang
    /\ locpc = "idle"

\* no joint population on its own
PopulateIdle ==
    /\ scratch = {}
    /\ qpc = [k \in CompletionKeys |-> "none"]

\* no answer yet
NoAnswer == [kind |-> "none"]

\* the node of a request for a position without node
NoNode == [type |-> "undefined", isKey |-> FALSE, isValue |-> FALSE, value |-> <<>>]

\* no request, and the language as constructed
FeatureIdle ==
    /\ editorLang = Lang
    /\ currentLanguageCode = Lang
    /\ langReqs = <<>>
    /\ locCache = EmptyMap
    /\ texCache = EmptyMap
    /\ fkind = "none"
    /\ fnode = NoNode
    /\ fctx = "none"
    /\ fpc = "idle"
    /\ answer = NoAnswer

\* no call of findFiles alone
FindIdle ==
    /\ wext = <<>>
    /\ wfound = <<>>
    /\ wpc = "idle"

\* a JSON value as the schema code sees it: the kind of its root, its $defs
\* (defsArray: written as an array) and its properties, each a map from a
\* name to the fields of the object under it
NoSchema ==
    [root |-> "undefined", hasDefs |-> FALSE, defsArray |-> FALSE, defs |-> EmptyMap,
     hasProps |-> FALSE, props |-> EmptyMap]

NoRequest ==
    [scheme |-> "none", fileName |-> "none", readable |-> FALSE, parses |-> FALSE,
     text |-> NoSchema]

Unsettled == [status |-> "pending", schema |-> NoSchema]

\* no schema requested
SchemaIdle ==
    /\ sreq = NoRequest
    /\ sres = Unsettled
    /\ spc = "idle"

\* the calls of rebuildIndex that may overlap
OverlapCalls == {1, 2}

NotCalled == [at |-> "none", ext |-> 0]

\* no such call
OverlapIdle == opc = [c \in OverlapCalls |-> NotCalled]

\* the workspace folders there can be: a, a/b inside it, c, and c/d inside it
ClientFolders == {<<"a">>, <<"a", "b">>, <<"c">>, <<"c", "d">>}

NotSorted == [defined |-> FALSE, list |-> <<>>]

\* the client side before activate ran, with no workspace folder
ClientIdle ==
    /\ wsFolders = {}
    /\ clients = {}
    /\ running = [f \in ClientFolders |-> 0]
    /\ defaultClient = FALSE
    /\ sortedWorkspaceFolders = NotSorted

LaterIdle == SchemaIdle /\ OverlapIdle /\ ClientIdle

InitRebuild ==
    /\ RebuildInit /\ CallInit /\ CompletionInit /\ ClassifyIdle /\ ServerIdle /\ ValidateIdle /\ LocaliseIdle /\ PopulateIdle /\ FeatureIdle /\ FindIdle /\ LaterIdle

SpecRebuild == InitRebuild /\ [][RebuildNext]_vars

---------------------------------------------------------------------------
(* Calls on the two cache stores, made one after the other by a caller that
   builds a fresh set for each call, as every loader does, or that passes
   back the set get() returned *)

MaxItems == 2

Items == 1..MaxItems

\* the categories and keys the calls are made on
SetCats == {"texture", "unit"}

SetKeys == {"textures", "brushes"}

\* what the calls on the stores leave alone
notSet ==
    <<ws, fileIndex, manifest, rpc, extIdx, cpc, mpc, classifyVars, serverVars, validateVars,
      localiseVars, populateVars, featureVars, findVars, laterVars>>

Call(op, c, items) ==
    [op |-> op, cat |-> c, items |-> items,
     repeat |-> (op \in {"set", "setCache"} /\ lastCall.op = op
                 /\ lastCall.cat = c /\ lastCall.items = items)]

\* cacheManager.set(c, items)
SetCall(c, items) ==
    /\ cache' = CacheSet(cache, c, items)
    /\ lastCall' = Call("set", c, items)
    /\ UNCHANGED <<ccache, notSet>>

\* cacheManager.get(c)
GetCall(c) ==
    /\ cache' = CacheGetMap(cache, c)
    /\ lastCall' = Call("get", c, CacheGet(cache, c))
    /\ UNCHANGED <<ccache, notSet>>

\* cacheManager.set(c, cacheManager.get(c)): items is the set of the category
\* itself, so the loop of set() runs over it after clear() emptied it
SetSameCall(c) ==
    /\ LET held == CacheGetMap(cache, c)
           cleared == [held EXCEPT ![c] = {}]
           items == cleared[c]
       IN  cache' = [cleared EXCEPT ![c] = @ \cup items]
    /\ lastCall' = [Call("setSame", c, CacheGet(cache, c)) EXCEPT !.repeat = FALSE]
    /\ UNCHANGED <<ccache, notSet>>

\* cacheManager.clear()
ClearCall ==
    /\ cache' = CacheClear(cache)
    /\ lastCall' = Call("clear", "none", {})
    /\ UNCHANGED <<ccache, notSet>>

\* completion cacheManager.setCache(k, items)
SetCacheCall(k, items) ==
    /\ ccache' = setCache(ccache, k, items)
    /\ lastCall' = Call("setCache", k, items)
    /\ UNCHANGED <<cache, notSet>>

SetNext ==
    \/ \E c \in SetCats, items \in SUBSET Items : SetCall(c, items)
    \/ \E c \in SetCats : GetCall(c)
    \/ \E c \in SetCats : SetSameCall(c)
    \/ ClearCall
    \/ \E k \in SetKeys, items \in SUBSET Items : SetCacheCall(k, items)

InitSet ==
    /\ RebuildInit /\ CallInit /\ CompletionInit /\ ClassifyIdle /\ ServerIdle /\ ValidateIdle /\ LocaliseIdle /\ PopulateIdle /\ FeatureIdle /\ FindIdle /\ LaterIdle

SpecSet == InitSet /\ [][SetNext]_vars

---------------------------------------------------------------------------
(* What a rebuild over workspace w computes for each category *)

\* the set loadLocalisations passes to set(), {} when it fails before set()
NewCache(w, k) ==
    IF k = "localized_text"
    THEN IF Parses(FS(w), LocFiles(FS(w), Lang)) THEN LocKeys(FS(w), Lang) ELSE {}
    ELSE ScanItems(FS(w), k)

NewManifest(w, k) ==
    IF Parses(FS(w), ManifestFiles(FS(w), k)) THEN ManifestIds(FS(w), k) ELSE {}

\* the same, tabulated once for every workspace
NewCacheOf == [w \in Workspaces |-> [k \in CacheTasks |-> NewCache(w, k)]]

NewManifestOf == [w \in Workspaces |-> [k \in ManifestTasks |-> NewManifest(w, k)]]

\* Promise.all rejects as soon as one of its tasks has rejected
JointRejected(pcs) == \E t \in DOMAIN pcs : pcs[t] = "failed"

\* the rebuild has returned or thrown and none of its tasks is pending
RebuildSettled == rpc \in {"done", "rejected"} /\ Settled(cpc) /\ Settled(mpc)

Faults(w) == {i \in DOMAIN w : w[i] # "ok"}

\* the source file of exactly one category is missing or is not JSON, and
\* nothing else is wrong with the workspace
OneSourceFails(w) ==
    /\ Cardinality(Faults(w)) = 1
    /\ \A i \in Faults(w) : Layout[i].json /\ w[i] \in {"missing", "bad"}

---------------------------------------------------------------------------
(* Claims about the rebuild *)

\* C1: between two suspension points a category of the Typed Cache Store
\* only ever goes to the empty set or to the complete set the rebuild
\* computes for it, or stays as it was; so an observer at a suspension
\* point sees the complete old set, the empty set or the complete new set,
\* never a part of the new members nor a mix of old and new ones.
C1_NoPartialCategory ==
    [][ /\ \A k \in CacheTasks :
              Members(cache', k) \in {Members(cache, k), {}, NewCacheOf[ws'][k]}
        /\ \A k \in ManifestTasks :
              Members(manifest', k) \in {Members(manifest, k), {}, NewManifestOf[ws'][k]}
      ]_rebuildVars

\* a suspension point of loadCache at which one category holds its complete
\* new set of several members while other tasks are still pending
C1_Witness ==
    /\ rpc = "cache"
    /\ cpc["brush"] = "done" /\ cpc["texture"] = "find" /\ cpc["localized_text"] = "read"
    /\ Cardinality(Members(cache, "brush")) >= 2
    /\ Members(cache, "texture") = {}

\* C4: with the source of exactly one category missing or unparseable, once
\* every population task has settled every other category holds the full
\* set of its own source and the failing category is empty.
C4_OthersFull ==
    (RebuildSettled /\ OneSourceFails(ws)) =>
        /\ \A k \in CacheTasks : Members(cache, k) = NewCacheOf[ws][k]
        /\ \A k \in ManifestTasks : Members(manifest, k) = NewManifestOf[ws][k]

\* C5: the joint populates and the rebuild never reject to their caller.
C5_NoRejection ==
    /\ ~JointRejected(cpc)
    /\ ~JointRejected(mpc)
    /\ rpc # "rejected"

\* the paths the File Enumerator returns for the tracked extensions, in
\* declaration order
RECURSIVE Enumerated(_, _)
Enumerated(w, i) ==
    IF i > Len(fileExtensions) THEN <<>>
    ELSE findFiles(FS(w), rootPath, fileExtensions[i], 0) \o Enumerated(w, i + 1)

EnumeratedOf == [w \in Workspaces |-> Enumerated(w, 1)]

ExpectedPaths(w, k) ==
    SelectSeq(EnumeratedOf[w], LAMBDA p : SplitFirst(basename(p)) = k)

Identifiers(w) == {SplitFirst(basename(p)) : p \in SeqToSet(EnumeratedOf[w])}

\* the same, tabulated once for every workspace
ExpectedIndexOf ==
    [w \in Workspaces |-> [k \in Identifiers(w) |-> ExpectedPaths(w, k)]]

IndexBuilt == rpc \in {"cache", "manifest", "done", "rejected"}

\* C6: once the index scan of a rebuild is over, getPaths(k) is exactly the
\* enumerated paths whose identifier is k, in enumeration order, and the
\* index has no other key.
C6_IndexExact ==
    IndexBuilt =>
        /\ DOMAIN fileIndex = DOMAIN ExpectedIndexOf[ws]
        /\ \A k \in DOMAIN ExpectedIndexOf[ws] :
              getPaths(fileIndex, k) = ExpectedIndexOf[ws][k]

\* a rebuild has finished over a workspace in which files of different
\* extensions share the identifier "fighter"
C6_Witness ==
    /\ rpc = "done"
    /\ <<"fighter">> \in DOMAIN fileIndex
    /\ Len(fileIndex[<<"fighter">>]) >= 3
    /\ \E i, j \in 1..Len(fileIndex[<<"fighter">>]) :
          extname(basename(fileIndex[<<"fighter">>][i]))
              # extname(basename(fileIndex[<<"fighter">>][j]))

\* C7: in every state, during and after a rebuild, every key of the index
\* has a non-empty path list and every path listed under key k has the
\* derived identifier k.
C7_KeysMatchPaths ==
    \A k \in DOMAIN fileIndex :
        /\ fileIndex[k] # <<>>
        /\ \A i \in 1..Len(fileIndex[k]) : SplitFirst(basename(fileIndex[k][i])) = k

\* the index scan is under way and a file with two dots in its name is
\* listed under the text before its first dot
C7_Witness ==
    /\ rpc = "index"
    /\ <<"fighter">> \in DOMAIN fileIndex
    /\ \E i \in 1..Len(fileIndex[<<"fighter">>]) :
          basename(fileIndex[<<"fighter">>][i]) = <<"fighter", Dot, "v2", Dot, "unit">>

---------------------------------------------------------------------------
(* Claims about the population of the categories *)

\* the place in the layout of the manifest of kind k
ManifestSource(k) ==
    CHOOSE i \in 1..Len(Layout) :
        Layout[i].dir = <<>> /\ Layout[i].name = N2(k, "entity_manifest")

\* C17: the load of a manifest category whose manifest file does not exist,
\* or has no ids, ends without an error and leaves the category empty.
C17_AbsentManifestEmpty ==
    \A k \in ManifestTasks :
        (mpc[k] \in {"done", "failed"} /\ ws[ManifestSource(k)] \in {"missing", "bare"})
            => (mpc[k] = "done" /\ Members(manifest, k) = {})

\* C18: after the load of a manifest category from a manifest that carries
\* ids, the members of the category are exactly the elements of ids.
C18_ManifestIdsExact ==
    \A k \in ManifestTasks :
        (mpc[k] = "done" /\ ws[ManifestSource(k)] = "ok")
            => Members(manifest, k) = SeqToSet(Layout[ManifestSource(k)].ids)

\* the unit skin category loaded from a manifest with two ids
C18_Witness ==
    /\ mpc["unit_skin"] = "done"
    /\ ws[ManifestSource("unit_skin")] = "ok"
    /\ Members(manifest, "unit_skin") = {<<"fighter_skin">>, <<"fighter">>}

\* the files of workspace w outside the ignored folders whose name ends
\* with a dot and ext
FilesOf(w, ext) ==
    {Layout[i].name : i \in
        {j \in 1..Len(Layout) :
            /\ w[j] # "missing"
            /\ ~Layout[j].isDir
            /\ Layout[j].dir # Git
            /\ Len(Layout[j].name) > 2
            /\ SubSeq(Layout[j].name, Len(Layout[j].name) - 1, Len(Layout[j].name))
                  = <<Dot, ext>>}}

\* a file name without its last dot and what follows it
Stripped(name) == SubSeq(name, 1, Len(name) - 2)

\* the extension of the files of a category, without its dot
ExtOf(k) ==
    CASE k = "brush" -> "png"
      [] k = "texture" -> "dds"
      [] OTHER -> k

\* C20: once populated, the texture and brush categories hold the bare name
\* and the stripped identifier of every enumerated file of their extension;
\* the unit, unit item, unit skin and mesh categories hold the stripped
\* identifier of every enumerated file of theirs and no bare file name.
C20_BareNameOnlyForImages ==
    \A k \in ScanCats :
        cpc[k] = "done" =>
            IF k \in {"texture", "brush"}
            THEN Members(cache, k) =
                    FilesOf(ws, ExtOf(k)) \cup {Stripped(n) : n \in FilesOf(ws, ExtOf(k))}
            ELSE /\ Members(cache, k) = {Stripped(n) : n \in FilesOf(ws, ExtOf(k))}
                 /\ Members(cache, k) \cap FilesOf(ws, ExtOf(k)) = {}

\* the texture category holds both forms of hull.dds and the unit category
\* holds fighter and not fighter.unit
C20_Witness ==
    /\ cpc["texture"] = "done" /\ cpc["unit"] = "done"
    /\ {N2("hull", "dds"), <<"hull">>} \subseteq Members(cache, "texture")
    /\ <<"fighter">> \in Members(cache, "unit")
    /\ N2("fighter", "unit") \notin Members(cache, "unit")

---------------------------------------------------------------------------
(* Pointer classification: SinsLanguageServer.getContext *)

\* the AST of the document
\*   {"a":{"name":"x","tags":["p","q"]},"b":{"name":"y"},"name":"z"}
\* as the JSON parser builds it: a node has its type, its offset and length
\* in the text and its parent (0 for the root); a property has the node of
\* its key, a string its value
Nodes ==
    << [type |-> "object", offset |-> 0, length |-> 63, parent |-> 0, keyNode |-> 0, value |-> ""],
       [type |-> "property", offset |-> 1, length |-> 33, parent |-> 1, keyNode |-> 3, value |-> ""],
       [type |-> "string", offset |-> 1, length |-> 3, parent |-> 2, keyNode |-> 0, value |-> "a"],
       [type |-> "object", offset |-> 5, length |-> 29, parent |-> 2, keyNode |-> 0, value |-> ""],
       [type |-> "property", offset |-> 6, length |-> 10, parent |-> 4, keyNode |-> 6, value |-> ""],
       [type |-> "string", offset |-> 6, length |-> 6, parent |-> 5, keyNode |-> 0, value |-> "name"],
       [type |-> "string", offset |-> 13, length |-> 3, parent |-> 5, keyNode |-> 0, value |-> "x"],
       [type |-> "property", offset |-> 17, length |-> 16, parent |-> 4, keyNode |-> 9, value |-> ""],
       [type |-> "string", offset |-> 17, length |-> 6, parent |-> 8, keyNode |-> 0, value |-> "tags"],
       [type |-> "array", offset |-> 24, length |-> 9, parent |-> 8, keyNode |-> 0, value |-> ""],
       [type |-> "string", offset |-> 25, length |-> 3, parent |-> 10, keyNode |-> 0, value |-> "p"],
       [type |-> "string", offset |-> 29, length |-> 3, parent |-> 10, keyNode |-> 0, value |-> "q"],
       [type |-> "property", offset |-> 35, length |-> 16, parent |-> 1, keyNode |-> 14, value |-> ""],
       [type |-> "string", offset |-> 35, length |-> 3, parent |-> 13, keyNode |-> 0, value |-> "b"],
       [type |-> "object", offset |-> 39, length |-> 12, parent |-> 13, keyNode |-> 0, value |-> ""],
       [type |-> "property", offset |-> 40, length |-> 10, parent |-> 15, keyNode |-> 17, value |-> ""],
       [type |-> "string", offset |-> 40, length |-> 6, parent |-> 16, keyNode |-> 0, value |-> "name"],
       [type |-> "string", offset |-> 47, length |-> 3, parent |-> 16, keyNode |-> 0, value |-> "y"],
       [type |-> "property", offset |-> 52, length |-> 10, parent |-> 1, keyNode |-> 20, value |-> ""],
       [type |-> "string", offset |-> 52, length |-> 6, parent |-> 19, keyNode |-> 0, value |-> "name"],
       [type |-> "string", offset |-> 59, length |-> 3, parent |-> 19, keyNode |-> 0, value |-> "z"] >>

\* PointerType
PointerType ==
    {"none", "brushes", "textures", "localized_text", "beam_effects",
     "action_data_sources", "particle_effects", "units", "buffs", "unit_skins",
     "npc_rewards", "action_value_ids", "research_subjects", "abilities",
     "unit_items", "buff_unit_factory_modifiers", "buff_unit_modifiers"}

\* a test that takes every match as covering the node
isWithinAnywhere(offset, node) == TRUE

\* JsonAST.isWithinSchemaNode
isWithinSchemaNode(offset, node) ==
    offset >= node.offset /\ offset <= node.offset + node.length

\* node.parent?.type === "property" && node === node.parent.keyNode
isKeyNode(n) ==
    /\ Nodes[n].parent # 0
    /\ Nodes[Nodes[n].parent].type = "property"
    /\ Nodes[Nodes[n].parent].keyNode = n

\* a walk that looks at the node and its parent only
PropertyOfParent(n) ==
    IF n = 0 THEN 0
    ELSE IF Nodes[n].type = "property" THEN n
    ELSE IF Nodes[n].parent # 0 /\ Nodes[Nodes[n].parent].type = "property"
    THEN Nodes[n].parent
    ELSE 0

\* the walk up to the nearest property, 0 when there is none
RECURSIVE PropertyOf(_)
PropertyOf(n) ==
    IF n = 0 THEN 0
    ELSE IF Nodes[n].type = "property" THEN n
    ELSE PropertyOf(Nodes[n].parent)

\* currentNode.keyNode.value
KeyOf(currentNode) == Nodes[Nodes[currentNode].keyNode].value

\* the loop over the matches: the value getContext returns, "TypeError" when
\* the in operator is applied to an undefined property definition
RECURSIVE ScanSchemas(_, _, _, _)
ScanSchemas(schemas, i, node, currentNode) ==
    IF i > Len(schemas) THEN "none"
    ELSE LET schema == schemas[i]
             rest == ScanSchemas(schemas, i + 1, node, currentNode)
         IN  IF ~isWithinSchemaNode(Nodes[node].offset, Nodes[schema.node])
             THEN rest
             ELSE IF "properties" \notin DOMAIN schema.schema
             THEN rest
             ELSE LET props == schema.schema.properties
                      key == KeyOf(currentNode)
                  IN  IF key \notin DOMAIN props THEN "TypeError"
                      ELSE IF "pointer" \notin DOMAIN props[key] THEN rest
                      ELSE props[key].pointer

\* the schemas of the matches: one without a property map, and property maps
\* that annotate "name", define it without an annotation, lack it, or
\* annotate both "name" and "tags"
PlainProp == [type |-> "string"]

PropsPool ==
    {[n \in {"name"} |-> [pointer |-> "localized_text"]],
     [n \in {"name"} |-> [pointer |-> "brushes"]],
     [n \in {"name"} |-> PlainProp],
     [n \in {"a"} |-> PlainProp],
     [n \in {"name", "tags"} |->
         IF n = "tags" THEN [pointer |-> "unit_skins"] ELSE [pointer |-> "localized_text"]]}

SchemaPool == {PlainProp} \cup {[properties |-> p] : p \in PropsPool}

\* the nodes the matches are on: the root object, the objects of "a" and of
\* "b", and the string "x"
Regions == {1, 4, 15}

LeafRegions == {7}

MatchPool ==
    {[node |-> r, schema |-> sc] : r \in Regions, sc \in SchemaPool}
        \cup {[node |-> r, schema |-> PlainProp] : r \in LeafRegions}

MaxMatches == 2

MatchLists == UNION {[1..n -> MatchPool] : n \in 0..MaxMatches}

Targets == 0..Len(Nodes)

\* what a classification leaves alone
notClassify ==
    <<rebuildVars, lastCall, ccache, serverVars, validateVars, localiseVars, populateVars, featureVars, findVars, laterVars>>

ClassifyInit ==
    /\ target \in Targets
    /\ matches = <<>>
    /\ gpc = "enter"
    /\ result = "pending"

\* getContext up to its await: the early returns and the walk to the property
GetContextEnter ==
    /\ gpc = "enter"
    /\ IF target = 0 \/ isKeyNode(target) \/ PropertyOf(target) = 0
       THEN gpc' = "early" /\ result' = "none"
       ELSE gpc' = "await" /\ UNCHANGED result
    /\ UNCHANGED <<target, matches, notClassify>>

\* getContext from the answer of getMatchingSchemas on
GetContextResume(schemas) ==
    /\ gpc = "await"
    /\ matches' = schemas
    /\ result' = ScanSchemas(schemas, 1, target, PropertyOf(target))
    /\ gpc' = IF result' = "TypeError" THEN "rejected" ELSE "done"
    /\ UNCHANGED <<target, notClassify>>

ClassifyNext ==
    \/ GetContextEnter
    \/ \E schemas \in MatchLists : GetContextResume(schemas)

InitClassify ==
    /\ RebuildInit /\ CallInit /\ CompletionInit /\ ClassifyInit /\ ServerIdle /\ ValidateIdle /\ LocaliseIdle /\ PopulateIdle /\ FeatureIdle /\ FindIdle /\ LaterIdle

SpecClassify == InitClassify /\ [][ClassifyNext]_vars

---------------------------------------------------------------------------
(* The language server: SinsLanguageServer, one document *)

\* the workspace without en.localized_text
NoLocalisation ==
    Status({CHOOSE i \in 1..Len(Layout) : Layout[i].name = N2(Lang, "localized_text")},
           [i \in 1..Len(Layout) |-> "missing"])

ServerWorkspaces == {Intact, NoLocalisation}

\* what each task of completionManager.loadFromWorkspace passes to setCache
CompletionItemsOf ==
    [w \in ServerWorkspaces |->
        [k \in CompletionKeys |->
            CASE k = "localized_text" -> LocKeys(FS(w), Lang)
              [] k = "textures" -> ScanItems(FS(w), "texture")
              [] k = "brushes" -> ScanItems(FS(w), "brush")
              [] k = "unit_skins" -> ManifestIds(FS(w), "unit_skin")]]

\* whether the task rejects: readFile of files[0] or JSON.parse throws
CompletionFailsOf ==
    [w \in ServerWorkspaces |->
        [k \in CompletionKeys |->
            CASE k = "localized_text" -> ~Parses(FS(w), LocFiles(FS(w), Lang))
              [] k = "unit_skins" -> ~Parses(FS(w), ManifestFiles(FS(w), "unit_skin"))
              [] OTHER -> FALSE]]

\* what the server leaves alone
notServer ==
    <<fileIndex, cache, manifest, rpc, extIdx, cpc, mpc, lastCall, classifyVars, validateVars,
      localiseVars, populateVars, featureVars, findVars, laterVars>>

\* the first full rebuild is complete: the three loads and the index rebuild
Ready ==
    /\ \A m \in DOMAIN lpc : lpc[m] = "done"
    /\ \A k \in DOMAIN kpc : kpc[k] = "done"
    /\ xpc = "done"

\* a read of store by a handler: remembered when it is the first before Ready
ReadOf(store) == IF ~Ready /\ unreadyRead = "none" THEN store ELSE unreadyRead

ServerInit ==
    /\ ws \in ServerWorkspaces
    /\ fileIndex = EmptyIndex
    /\ cache = EmptyMap
    /\ manifest = EmptyMap
    /\ rpc = "idle"
    /\ extIdx = 0
    /\ cpc = AllNone(CacheTasks)
    /\ mpc = AllNone(ManifestTasks)

\* onInitialize: rootUri is kept as the workspace folder
OnInitialize(rootUri) ==
    /\ ipc = "created"
    /\ workspaceFolder' = rootUri
    /\ ipc' = "handshake"
    /\ UNCHANGED <<ws, ccache, isInitialized, lpc, kpc, xpc, docOpen, docVer, vals,
                   initVal, published, maxPublished, req, unreadyRead, notServer>>

\* onInitialized up to its await of Promise.all
OnInitialized ==
    /\ ipc = "handshake"
    /\ IF workspaceFolder
       THEN /\ ipc' = "loading"
            /\ lpc' = [m \in DOMAIN lpc |-> "run"]
            /\ kpc' = [k \in DOMAIN kpc |-> "run"]
       ELSE /\ ipc' = "done"
            /\ UNCHANGED <<lpc, kpc>>
    /\ UNCHANGED <<ws, ccache, workspaceFolder, isInitialized, xpc, docOpen, docVer, vals,
                   initVal, published, maxPublished, req, unreadyRead, notServer>>

\* localizationManager / textureManager loadFromWorkspace returns
LoadManager(m) ==
    /\ lpc[m] = "run"
    /\ lpc' = [lpc EXCEPT ![m] = "done"]
    /\ UNCHANGED <<ws, ccache, workspaceFolder, isInitialized, ipc, kpc, xpc, docOpen,
                   docVer, vals, initVal, published, maxPublished, req, unreadyRead,
                   notServer>>

\* a task of completionManager.loadFromWorkspace from its last await on
LoadCompletion(k) ==
    /\ kpc[k] = "run"
    /\ IF CompletionFailsOf[ws][k]
       THEN /\ kpc' = [kpc EXCEPT ![k] = "failed"]
            /\ UNCHANGED ccache
       ELSE /\ ccache' = setCache(ccache, k, CompletionItemsOf[ws][k])
            /\ kpc' = [kpc EXCEPT ![k] = "done"]
    /\ UNCHANGED <<ws, workspaceFolder, isInitialized, ipc, lpc, xpc, docOpen, docVer,
                   vals, initVal, published, maxPublished, req, unreadyRead, notServer>>

\* Promise.all resolved: rebuildIndex is called and not awaited, then the
\* documents are validated one after the other, then isInitialized is set
LoadsJoin ==
    /\ ipc = "loading"
    /\ \A m \in DOMAIN lpc : lpc[m] = "done"
    /\ \A k \in DOMAIN kpc : kpc[k] = "done"
    /\ xpc' = "run"
    /\ IF docOpen
       THEN /\ ipc' = "validating"
            /\ initVal' = docVer
            /\ vals' = [vals EXCEPT ![docVer] = "schema"]
            /\ UNCHANGED isInitialized
       ELSE /\ ipc' = "done"
            /\ isInitialized' = TRUE
            /\ UNCHANGED <<initVal, vals>>
    /\ UNCHANGED <<ws, ccache, workspaceFolder, lpc, kpc, docOpen, docVer, published,
                   maxPublished, req, unreadyRead, notServer>>

\* Promise.all rejected: onInitialized throws, the other tasks go on
LoadsReject ==
    /\ ipc = "loading"
    /\ \E k \in DOMAIN kpc : kpc[k] = "failed"
    /\ ipc' = "rejected"
    /\ UNCHANGED <<ws, ccache, workspaceFolder, isInitialized, lpc, kpc, xpc, docOpen,
                   docVer, vals, initVal, published, maxPublished, req, unreadyRead,
                   notServer>>

\* the rebuildIndex that was not awaited returns
IndexDone ==
    /\ xpc = "run"
    /\ xpc' = "done"
    /\ UNCHANGED <<ws, ccache, workspaceFolder, isInitialized, ipc, lpc, kpc, docOpen,
                   docVer, vals, initVal, published, maxPublished, req, unreadyRead,
                   notServer>>

\* onDidChangeContent for the content of version v: nothing before
\* isInitialized, else validateTextDocument up to its first await
DidChangeContent(v) ==
    IF isInitialized THEN vals' = [vals EXCEPT ![v] = "schema"] ELSE UNCHANGED vals

\* the document is opened: onDidOpen, then onDidChangeContent
DidOpen ==
    /\ ipc \notin {"created", "handshake"}
    /\ ~docOpen
    /\ docVer < MaxVersion
    /\ docOpen' = TRUE
    /\ docVer' = docVer + 1
    /\ DidChangeContent(docVer + 1)
    /\ UNCHANGED <<ws, ccache, workspaceFolder, isInitialized, ipc, lpc, kpc, xpc,
                   initVal, published, maxPublished, req, unreadyRead, notServer>>

\* the document is changed: onDidChangeContent
DidChange ==
    /\ docOpen
    /\ docVer < MaxVersion
    /\ docVer' = docVer + 1
    /\ DidChangeContent(docVer + 1)
    /\ UNCHANGED <<ws, ccache, workspaceFolder, isInitialized, ipc, lpc, kpc, xpc,
                   docOpen, initVal, published, maxPublished, req, unreadyRead,
                   notServer>>

\* onDidClose: empty diagnostics are sent
DidClose ==
    /\ docOpen
    /\ docOpen' = FALSE
    /\ published' = 0
    /\ maxPublished' = 0
    /\ UNCHANGED <<ws, ccache, workspaceFolder, isInitialized, ipc, lpc, kpc, xpc,
                   docVer, vals, initVal, req, unreadyRead, notServer>>

\* validateTextDocument: doValidation resolved, validatePointers runs up to
\* its await
ValidateSchema(v) ==
    /\ vals[v] = "schema"
    /\ vals' = [vals EXCEPT ![v] = "pointers"]
    /\ UNCHANGED <<ws, ccache, workspaceFolder, isInitialized, ipc, lpc, kpc, xpc,
                   docOpen, docVer, initVal, published, maxPublished, req, unreadyRead,
                   notServer>>

\* validateTextDocument: validatePointers resolved, where hasPointers says
\* whether a pointer value was looked up in the cache; the diagnostics are
\* sent, and onInitialized, when it awaited this validation, sets isInitialized
ValidatePointers(v, hasPointers) ==
    /\ vals[v] = "pointers"
    /\ vals' = [vals EXCEPT ![v] = "none"]
    /\ published' = v
    /\ maxPublished' = Max({maxPublished, v})
    /\ unreadyRead' = IF hasPointers THEN ReadOf("cache") ELSE unreadyRead
    /\ IF ipc = "validating" /\ initVal = v
       THEN /\ ipc' = "done"
            /\ initVal' = 0
            /\ isInitialized' = TRUE
       ELSE UNCHANGED <<ipc, initVal, isInitialized>>
    /\ UNCHANGED <<ws, ccache, workspaceFolder, lpc, kpc, xpc, docOpen, docVer, req,
                   notServer>>

\* onDefinition / onCompletion up to the await of getContext
Request(kind) ==
    /\ ipc \notin {"created", "handshake"}
    /\ docOpen
    /\ req = "none"
    /\ req' = kind
    /\ UNCHANGED <<ws, ccache, workspaceFolder, isInitialized, ipc, lpc, kpc, xpc,
                   docOpen, docVer, vals, initVal, published, maxPublished, unreadyRead,
                   notServer>>

\* onDefinition from the answer of getContext on: a string value is looked up
\* in the index
DefinitionResume(isValue) ==
    /\ req = "definition"
    /\ req' = "none"
    /\ unreadyRead' = IF isValue THEN ReadOf("index") ELSE unreadyRead
    /\ UNCHANGED <<ws, ccache, workspaceFolder, isInitialized, ipc, lpc, kpc, xpc,
                   docOpen, docVer, vals, initVal, published, maxPublished, notServer>>

\* onCompletion from the answer of getContext on: the list is made from the
\* cache for three of the categories
CompletionResume(context) ==
    /\ req = "completion"
    /\ req' = "none"
    /\ unreadyRead' = IF context \in {"localized_text", "brushes", "unit_skins"}
                      THEN ReadOf("cache") ELSE unreadyRead
    /\ UNCHANGED <<ws, ccache, workspaceFolder, isInitialized, ipc, lpc, kpc, xpc,
                   docOpen, docVer, vals, initVal, published, maxPublished, notServer>>

ServerNext ==
    \/ \E rootUri \in BOOLEAN : OnInitialize(rootUri)
    \/ OnInitialized
    \/ \E m \in {"localization", "texture"} : LoadManager(m)
    \/ \E k \in CompletionKeys : LoadCompletion(k)
    \/ LoadsJoin
    \/ LoadsReject
    \/ IndexDone
    \/ DidOpen
    \/ DidChange
    \/ DidClose
    \/ \E v \in Versions : ValidateSchema(v)
    \/ \E v \in Versions, hasPointers \in BOOLEAN : ValidatePointers(v, hasPointers)
    \/ \E kind \in {"definition", "completion"} : Request(kind)
    \/ \E isValue \in BOOLEAN : DefinitionResume(isValue)
    \/ \E context \in PointerType : CompletionResume(context)

InitServer ==
    /\ ServerInit /\ CallInit /\ CompletionInit /\ ClassifyIdle /\ ServerIdle /\ ValidateIdle /\ LocaliseIdle /\ PopulateIdle /\ FeatureIdle /\ FindIdle /\ LaterIdle

SpecServer == InitServer /\ [][ServerNext]_vars

\* a continuation of onInitialized, of a manager's load or of a validation
ServerStep ==
    \/ OnInitialized
    \/ \E m \in {"localization", "texture"} : LoadManager(m)
    \/ LoadsJoin
    \/ LoadsReject
    \/ IndexDone
    \/ \E v \in Versions : ValidateSchema(v)
    \/ \E v \in Versions, hasPointers \in BOOLEAN : ValidatePointers(v, hasPointers)

\* the event loop runs a continuation whenever one is ready; what the editor
\* sends is not forced.  Every continuation moves a position forward, so
\* none can be passed over for ever.  A task of the completion manager is
\* ready exactly while its position is "run" and its step leaves that
\* position, so weak fairness of LoadCompletion(k) is that the task is
\* infinitely often not at "run"
ServerFairness ==
    /\ WF_vars(ServerStep)
    /\ \A k \in CompletionKeys : []<>(kpc[k] # "run")

SpecServerFair == InitServer /\ [][ServerNext]_vars /\ ServerFairness


---------------------------------------------------------------------------
(* Validation of a document: validateTextDocument and validatePointers, over
   the document of Nodes *)

\* node.items / node.children, in the order of the text
Children(n) ==
    LET C == {c \in 1..Len(Nodes) : Nodes[c].parent = n}
        RECURSIVE Ordered(_)
        Ordered(S) == IF S = {} THEN <<>>
                      ELSE <<Min(S)>> \o Ordered(S \ {Min(S)})
    IN  Ordered(C)

\* property.valueNode, 0 when the property has none
valueNode(p) ==
    LET V == {c \in 1..Len(Nodes) : Nodes[c].parent = p /\ Nodes[p].keyNode # c}
    IN  IF V = {} THEN 0 ELSE Min(V)

\* JsonAST.findNodes: the properties named key under node, in the order of the text
RECURSIVE findNodes(_, _)
findNodes(node, key) ==
    LET RECURSIVE Each(_, _)
        Each(cs, i) == IF i > Len(cs) THEN <<>>
                       ELSE findNodes(cs[i], key) \o Each(cs, i + 1)
    IN  (IF Nodes[node].type = "property" /\ KeyOf(node) = key THEN <<node>> ELSE <<>>)
            \o Each(Children(node), 1)

\* a diagnostic of the cross-reference pass: its range and the category missed
Diagnostic(node, pointer) ==
    [start |-> Nodes[node].offset, end |-> Nodes[node].offset + Nodes[node].length,
     pointer |-> pointer]

\* Set.has(node.value): a value that is not a string is in no set
Has(set, node) == Nodes[node].type = "string" /\ Nodes[node].value \in set

\* the cases of the switch in walk
WalkCases == {"localized_text", "brushes", "unit_skins"}

\* validatePointers.walk: the diagnostics it pushes
RECURSIVE walk(_, _, _)
walk(store, node, pointer) ==
    IF node = 0 \/ Nodes[node].type = "null" THEN <<>>
    ELSE IF Nodes[node].type = "array"
    THEN LET RECURSIVE Each(_, _)
             Each(cs, i) == IF i > Len(cs) THEN <<>>
                            ELSE walk(store, cs[i], pointer) \o Each(cs, i + 1)
         IN  Each(Children(node), 1)
    ELSE IF pointer \in WalkCases /\ ~Has(getCache(store, pointer), node)
    THEN <<Diagnostic(node, pointer)>>
    ELSE <<>>

\* a property definition that is the schema true
BooleanSchema == [boolean |-> TRUE]

\* Object.keys(props): the names in the order they were written
KeyOrder == <<"a", "name", "tags">>

\* the body of schemas.forEach for one match: what it pushes, or that the in
\* operator threw on a definition that is not an object
MatchDiagnostics(store, schemaMatch) ==
    IF "properties" \notin DOMAIN schemaMatch.schema THEN [threw |-> FALSE, diags |-> <<>>]
    ELSE LET props == schemaMatch.schema.properties
             keys == SelectSeq(KeyOrder, LAMBDA k : k \in DOMAIN props)
             RECURSIVE OfNodes(_, _, _)
             OfNodes(nodes, i, pointer) ==
                 IF i > Len(nodes) THEN <<>>
                 ELSE (IF isWithinSchemaNode(Nodes[nodes[i]].offset, Nodes[schemaMatch.node])
                       THEN walk(store, valueNode(nodes[i]), pointer)
                       ELSE <<>>) \o OfNodes(nodes, i + 1, pointer)
             RECURSIVE OfKeys(_)
             OfKeys(i) ==
                 IF i > Len(keys) THEN [threw |-> FALSE, diags |-> <<>>]
                 ELSE LET schemaProp == props[keys[i]]
                      IN  IF "boolean" \in DOMAIN schemaProp
                          THEN [threw |-> TRUE, diags |-> <<>>]
                          ELSE LET rest == OfKeys(i + 1)
                                   mine == IF "pointer" \notin DOMAIN schemaProp THEN <<>>
                                           ELSE OfNodes(findNodes(1, keys[i]), 1,
                                                        schemaProp.pointer)
                               IN  [threw |-> rest.threw, diags |-> mine \o rest.diags]
         IN  OfKeys(1)

\* validatePointers from the answer of getMatchingSchemas on
RECURSIVE validatePointers(_, _, _)
validatePointers(store, schemas, i) ==
    IF i > Len(schemas) THEN [threw |-> FALSE, diags |-> <<>>]
    ELSE LET mine == MatchDiagnostics(store, schemas[i])
         IN  IF mine.threw THEN mine
             ELSE LET rest == validatePointers(store, schemas, i + 1)
                  IN  [threw |-> rest.threw, diags |-> mine.diags \o rest.diags]

\* the schemas of the matches of a validation: without a property map, or
\* with one that annotates "name" with a category, annotates "name" and
\* "tags", or defines "name" by the schema true
ValidateProps ==
    {[n \in {"name"} |-> [pointer |-> "localized_text"]],
     [n \in {"name"} |-> [pointer |-> "brushes"]],
     [n \in {"name"} |-> [pointer |-> "textures"]],
     [n \in {"name", "tags"} |->
         IF n = "tags" THEN [pointer |-> "unit_skins"] ELSE [pointer |-> "localized_text"]],
     [n \in {"name"} |-> BooleanSchema]}

\* the matches are on the root object and on the object of "a"
ValidateRegions == {1, 4}

ValidatePool ==
    {[node |-> r, schema |-> sc] :
        r \in ValidateRegions, sc \in {PlainProp} \cup {[properties |-> q] : q \in ValidateProps}}

ValidateLists == UNION {[1..n -> ValidatePool] : n \in 0..MaxMatches}

\* what the categories of the cache hold: nothing, one of the values of the
\* document, or all of them
CacheDraws == {{}, {"x"}, {"x", "p", "q", "y", "z"}}

\* what doValidation answers: nothing, or a diagnostic of its own
SchemaDraws == {<<>>, <<[start |-> 0, end |-> 1, pointer |-> "schema"]>>}

\* what a validation leaves alone
notValidate ==
    <<rebuildVars, lastCall, target, gpc, result, serverVars, localiseVars, populateVars, featureVars, findVars, laterVars>>

ValidateInit ==
    /\ target = 0
    /\ gpc = "idle"
    /\ result = "none"
    /\ matches \in ValidateLists
    /\ \E S \in CacheDraws : ccache = [k \in CompletionKeys |-> S]
    /\ vpc = "enter"
    /\ schemaDiags = <<>>
    /\ sent = NotSent
    /\ removed = "none"

\* validateTextDocument up to the await of doValidation
ValidateEnter ==
    /\ vpc = "enter"
    /\ vpc' = "schema"
    /\ UNCHANGED <<matches, ccache, schemaDiags, sent, removed, notValidate>>

\* doValidation answered d; validatePointers runs up to its await
SchemaDone(d) ==
    /\ vpc = "schema"
    /\ schemaDiags' = d
    /\ vpc' = "pointers"
    /\ UNCHANGED <<matches, ccache, sent, removed, notValidate>>

\* getMatchingSchemas answered: validatePointers returns or throws, and when
\* it returns the two lists are sent one after the other
PointersDone ==
    /\ vpc = "pointers"
    /\ LET r == validatePointers(ccache, matches, 1)
       IN  IF r.threw
           THEN /\ vpc' = "rejected"
                /\ UNCHANGED sent
           ELSE /\ vpc' = "done"
                /\ sent' = [published |-> TRUE, diagnostics |-> schemaDiags \o r.diags]
    /\ UNCHANGED <<matches, ccache, schemaDiags, removed, notValidate>>

\* a category of the cache is set again without identifier x, and the same
\* document is validated again
Revalidate(k, x) ==
    /\ vpc = "done"
    /\ removed = "none"
    /\ x \in getCache(ccache, k)
    /\ ccache' = setCache(ccache, k, getCache(ccache, k) \ {x})
    /\ removed' = x
    /\ vpc' = "enter"
    /\ UNCHANGED <<matches, schemaDiags, sent, notValidate>>

ValidateNext ==
    \/ ValidateEnter
    \/ \E d \in SchemaDraws : SchemaDone(d)
    \/ PointersDone
    \/ \E k \in {"localized_text", "brushes"}, x \in {"x"} : Revalidate(k, x)

InitValidate ==
    /\ RebuildInit /\ CallInit /\ ValidateInit /\ ServerIdle /\ LocaliseIdle /\ PopulateIdle /\ FeatureIdle /\ FindIdle /\ LaterIdle

SpecValidate == InitValidate /\ [][ValidateNext]_vars

---------------------------------------------------------------------------
(* loadLocalisations called alone, over workspaces that hold other files
   beside en.localized_text.  A file name is the concatenation of its
   tokens: "citizen.localized_text" is written with the tokens "citiz" and
   "en" *)

LocaleFiles ==
    {Layout[1],
     File(<<>>, N2("fr", "localized_text"), TRUE, << <<"nom">> >>, FALSE, <<>>),
     File(<<>>, <<"citiz", "en", Dot, "localized_text">>, TRUE, << <<"people">> >>,
          FALSE, <<>>),
     Plain(<<>>, N2("fighter", "unit"))}

\* the workspaces: en.localized_text and any of the other files, in any
\* order of the directory listing
LocaleFileSystems ==
    UNION {{f \in [1..n -> LocaleFiles] :
               /\ \A i, j \in 1..n : i # j => f[i] # f[j]
               /\ \E i \in 1..n : f[i] = Layout[1]} : n \in 1..Cardinality(LocaleFiles)}

Langs == {"en", "fr"}

\* what the call leaves alone
notLocalise ==
    <<ws, fileIndex, manifest, rpc, extIdx, cpc, mpc, lastCall, ccache, classifyVars,
      serverVars, validateVars, populateVars, featureVars, findVars, laterVars>>

LocaliseInit ==
    /\ ws = Intact
    /\ fileIndex = EmptyIndex
    /\ manifest = EmptyMap
    /\ rpc = "idle"
    /\ extIdx = 0
    /\ cpc = AllNone(CacheTasks)
    /\ mpc = AllNone(ManifestTasks)
    /\ cache \in {EmptyMap, CacheSet(EmptyMap, "localized_text", {<<"old">>})}
    /\ lfs \in LocaleFileSystems
    /\ llang \in Langs
    /\ locpc = "find"

\* loadLocalisations(rootPath, lang), resumption after findFiles
LocaliseFind ==
    /\ locpc = "find"
    /\ locpc' = "read"
    /\ UNCHANGED <<cache, lfs, llang, notLocalise>>

\* loadLocalisations(rootPath, lang), resumption after readFile
LocaliseRead ==
    /\ locpc = "read"
    /\ IF Parses(lfs, LocFiles(lfs, llang))
       THEN /\ cache' = CacheSet(cache, "localized_text", LocKeys(lfs, llang))
            /\ locpc' = "done"
       ELSE /\ locpc' = "failed"
            /\ UNCHANGED cache
    /\ UNCHANGED <<lfs, llang, notLocalise>>

LocaliseNext ==
    \/ LocaliseFind
    \/ LocaliseRead

InitLocalise ==
    /\ LocaliseInit /\ CallInit /\ CompletionInit /\ ClassifyIdle /\ ServerIdle
    /\ ValidateIdle /\ PopulateIdle /\ FeatureIdle /\ FindIdle /\ LaterIdle

SpecLocalise == InitLocalise /\ [][LocaliseNext]_vars

---------------------------------------------------------------------------
(* The joint populations launched together: the seven tasks of
   CacheManager.loadCache and the four of CompletionManager.loadFromWorkspace,
   which share the one set of the CompletionManager.  Every action is the
   code of one task between two suspension points *)

\* the workspaces in which every source is present and is JSON where it has to be
PopulateWorkspaces ==
    {w \in Workspaces : \A i \in Faults(w) : Layout[i].json => w[i] = "bare"}

\* the category of cache.ts whose loader a task of manifest.ts repeats
ScanCatOf(k) == IF k = "textures" THEN "texture" ELSE "brush"

\* a task that leaves the shared set as it filled it
KeepScratch(set) == set

\* this.set.clear()
ClearScratch(set) == {}

\* what the populations leave alone
notPopulate ==
    <<ws, fileIndex, manifest, rpc, extIdx, mpc, lastCall, classifyVars, serverVars,
      validateVars, localiseVars, featureVars, findVars, laterVars>>

PopulateInit ==
    /\ ws \in PopulateWorkspaces
    /\ fileIndex = EmptyIndex
    /\ cache = EmptyMap
    /\ manifest = EmptyMap
    /\ rpc = "cache"
    /\ extIdx = 0
    /\ cpc = Launched(CacheTasks)
    /\ mpc = AllNone(ManifestTasks)
    /\ scratch = {}
    /\ qpc = [k \in CompletionKeys |-> "find"]

\* CompletionManager.loadBrushes / loadTextures, resumption after findFiles
CompletionScan(k) ==
    /\ qpc[k] = "find"
    /\ LET filled == scratch \cup ScanItems(FSOf[ws], ScanCatOf(k))
       IN  /\ ccache' = setCache(ccache, k, filled)
           /\ scratch' = ClearScratch(filled)
    /\ qpc' = [qpc EXCEPT ![k] = "done"]
    /\ UNCHANGED <<cache, cpc, notPopulate>>

\* CompletionManager.loadLocalisations / loadUnitSkins, resumption after findFiles
CompletionFind(k) ==
    /\ qpc[k] = "find"
    /\ qpc' = [qpc EXCEPT ![k] = "read"]
    /\ UNCHANGED <<cache, cpc, ccache, scratch, notPopulate>>

\* the files the task found and what it adds from the first of them
CompletionSource(fs, k) ==
    IF k = "localized_text" THEN LocFiles(fs, Lang) ELSE ManifestFiles(fs, "unit_skin")

CompletionAdds(fs, k) ==
    IF k = "localized_text" THEN LocKeys(fs, Lang) ELSE ManifestIds(fs, "unit_skin")

\* CompletionManager.loadLocalisations / loadUnitSkins, resumption after readFile
CompletionRead(k) ==
    /\ qpc[k] = "read"
    /\ IF Parses(FSOf[ws], CompletionSource(FSOf[ws], k))
       THEN LET filled == scratch \cup CompletionAdds(FSOf[ws], k)
            IN  /\ ccache' = setCache(ccache, k, filled)
                /\ scratch' = ClearScratch(filled)
                /\ qpc' = [qpc EXCEPT ![k] = "done"]
       ELSE /\ qpc' = [qpc EXCEPT ![k] = "failed"]
            /\ UNCHANGED <<ccache, scratch>>
    /\ UNCHANGED <<cache, cpc, notPopulate>>

PopulateNext ==
    \/ \E k \in ScanCats : LoadScan(k)
    \/ LocFind
    \/ LocRead
    \/ \E k \in {"textures", "brushes"} : CompletionScan(k)
    \/ \E k \in {"localized_text", "unit_skins"} : CompletionFind(k)
    \/ \E k \in {"localized_text", "unit_skins"} : CompletionRead(k)

InitPopulate ==
    /\ PopulateInit /\ CallInit /\ CompletionInit /\ ClassifyIdle /\ ServerIdle
    /\ ValidateIdle /\ LocaliseIdle /\ FeatureIdle /\ FindIdle /\ LaterIdle

SpecPopulate == InitPopulate /\ [][PopulateNext]_vars

---------------------------------------------------------------------------
(* The language features: onHover, onDefinition and onCompletion of an
   initialized server, one request at a time, and the language setting the
   server asks the editor for on every change of a document *)

MaxPending == 1

\* the workspace of the requests: the intact layout and a French file that
\* lacks the key title
FeatureFS ==
    FS(Intact) \o
    << File(<<>>, N2("fr", "localized_text"), TRUE, << <<"ship_name">> >>, FALSE, <<>>) >>

\* the text a localisation file gives for a key: one text per language and key
TextOf(languageCode, key) == <<languageCode, key>>

\* the files LocalizationManager.loadFromWorkspace reads and parses
LocalizedFiles(fs) ==
    {f \in SeqToSet(findFiles(fs, rootPath, <<Dot, "localized_text">>, 0)) :
        EntryAt(fs, f).json}

\* LocalizationManager.cache after loadFromWorkspace
LocalizationLoad(fs) ==
    [l \in {SplitFirst(basename(f)) : f \in LocalizedFiles(fs)} |->
        [k \in UNION {SeqToSet(EntryAt(fs, f).keys) :
                         f \in {g \in LocalizedFiles(fs) : SplitFirst(basename(g)) = l}} |->
            TextOf(l, k)]]

\* LocalizationManager.knownKeys
knownKeys(c) == UNION {DOMAIN c[l] : l \in DOMAIN c}

Null == [kind |-> "null"]

\* the answer of a handler that rejected
Rejected == [kind |-> "error"]

\* the text of `${undefined}`
UndefinedText == <<"undefined">>

\* a getHover that shows the key in any language without testing knownKeys
getHoverUnknown(c, key, lang) ==
    [kind |-> "localization", lang |-> lang, text |-> UndefinedText]

\* LocalizationManager.getHover(key, lang)
getHover(c, key, lang) ==
    IF key \notin knownKeys(c) THEN Null
    ELSE [kind |-> "localization", lang |-> lang,
          text |-> IF <<lang>> \in DOMAIN c /\ key \in DOMAIN c[<<lang>>]
                   THEN c[<<lang>>][key] ELSE UndefinedText]

\* TextureManager.cache after loadFromWorkspace: the last file of each key
TextureLoad(fs) ==
    LET files == findFiles(fs, rootPath, <<Dot, "png">>, 0)
    IN  [k \in {SplitFirst(basename(files[i])) : i \in DOMAIN files} |->
            files[Max({i \in DOMAIN files : SplitFirst(basename(files[i])) = k})]]

\* jsonLanguageService.doHover
DefaultHover == [kind |-> "default"]

\* the node under the cursor: none, a key, a string value, the empty
\* string, a number
FeatureValues ==
    {<<"ship_name">>, <<"title">>, <<"hull">>, <<"fighter">>, <<"laser">>, <<"nothing">>}

FeatureNodes ==
    {NoNode,
     [type |-> "string", isKey |-> TRUE, isValue |-> FALSE, value |-> <<"ship_name">>],
     [type |-> "string", isKey |-> FALSE, isValue |-> TRUE, value |-> <<>>],
     [type |-> "number", isKey |-> FALSE, isValue |-> TRUE, value |-> <<"hull">>]}
    \cup {[type |-> "string", isKey |-> FALSE, isValue |-> TRUE, value |-> v] :
             v \in FeatureValues}

\* the categories getContext returns in the requests
FeatureContexts == {"none", "localized_text", "brushes", "textures", "unit_skins", "units"}

\* what getContext can do for a node: none at once for no node and for a
\* key, else a category or the TypeError of a property map without the key
ContextsFor(node) ==
    IF node = NoNode \/ node.isKey THEN {"none"} ELSE FeatureContexts \cup {"TypeError"}

\* what the requests leave alone
notFeature ==
    <<rebuildVars, lastCall, ccache, classifyVars, ipc, lpc, kpc, xpc, docOpen, docVer,
      vals, initVal, published, maxPublished, req, unreadyRead, validateVars, llang,
      locpc, populateVars, findVars, laterVars>>

\* an initialized server: the managers loaded from the workspace, or no
\* workspace folder and nothing loaded
\* IndexManager.rebuildIndex: the files of the loop over fileExtensions, in
\* the order in which they are added
RECURSIVE ScanAll(_, _)
ScanAll(fs, i) ==
    IF i > Len(fileExtensions) THEN <<>>
    ELSE findFiles(fs, rootPath, fileExtensions[i], 0) \o ScanAll(fs, i + 1)

\* the index a completed rebuildIndex leaves
IndexScan(fs) == AddAll(EmptyIndex, ScanAll(fs, 1))

\* the categories of the completion store after loadFromWorkspace, whose
\* loadLocalisations is called without a language: "en"
CompletionLoad(fs) ==
    [k \in CompletionKeys |->
        IF k \in {"textures", "brushes"} THEN ScanItems(fs, ScanCatOf(k))
        ELSE CompletionAdds(fs, k)]

FeatureLangs == Langs \cup {"de"}

FeatureInit ==
    /\ ws = Intact
    /\ cache = EmptyMap
    /\ manifest = EmptyMap
    /\ rpc = "idle"
    /\ extIdx = 0
    /\ cpc = AllNone(CacheTasks)
    /\ mpc = AllNone(ManifestTasks)
    /\ lfs = FeatureFS
    /\ llang = Lang
    /\ locpc = "idle"
    /\ workspaceFolder \in BOOLEAN
    /\ isInitialized = workspaceFolder
    /\ fileIndex = IF workspaceFolder THEN IndexScan(lfs) ELSE EmptyIndex
    /\ ccache = IF workspaceFolder THEN CompletionLoad(lfs) ELSE EmptyCompletion
    /\ locCache = IF workspaceFolder THEN LocalizationLoad(lfs) ELSE EmptyMap
    /\ texCache = IF workspaceFolder THEN TextureLoad(lfs) ELSE EmptyMap
    /\ editorLang = Lang
    /\ currentLanguageCode = Lang
    /\ langReqs = <<>>
    /\ fkind = "none"
    /\ fnode = NoNode
    /\ fctx = "none"
    /\ fpc = "idle"
    /\ answer = NoAnswer
    /\ ipc = "done"
    /\ lpc = [m \in {"localization", "texture"} |-> IF workspaceFolder THEN "done" ELSE "none"]
    /\ kpc = [k \in CompletionKeys |-> IF workspaceFolder THEN "done" ELSE "none"]
    /\ xpc = IF workspaceFolder THEN "done" ELSE "none"
    /\ docOpen = TRUE
    /\ docVer = 1
    /\ vals = [v \in Versions |-> "none"]
    /\ initVal = 0
    /\ published = 0
    /\ maxPublished = 0
    /\ req = "none"
    /\ unreadyRead = "none"

featureFixed == <<lfs, workspaceFolder, isInitialized, locCache, texCache, notFeature>>

\* the user selects another language in the settings of the editor
SelectLanguage(l) ==
    /\ l # editorLang
    /\ editorLang' = l
    /\ UNCHANGED <<currentLanguageCode, langReqs, fkind, fnode, fctx, fpc, answer,
                   featureFixed>>

\* onDidChangeContent: sendRequest(language), its reply not awaited
LanguageAsk ==
    /\ isInitialized
    /\ Len(langReqs) < MaxPending
    /\ langReqs' = Append(langReqs, "asked")
    /\ UNCHANGED <<editorLang, currentLanguageCode, fkind, fnode, fctx, fpc, answer,
                   featureFixed>>

\* the editor answers the oldest request it has not answered: getLanguage()
LanguageAnswer ==
    /\ \E i \in DOMAIN langReqs :
          /\ langReqs[i] = "asked"
          /\ \A j \in 1..(i - 1) : langReqs[j] # "asked"
          /\ langReqs' = [langReqs EXCEPT ![i] = editorLang]
    /\ UNCHANGED <<editorLang, currentLanguageCode, fkind, fnode, fctx, fpc, answer,
                   featureFixed>>

\* .then((code) => this.currentLanguageCode = code)
LanguageReply ==
    /\ langReqs # <<>>
    /\ Head(langReqs) # "asked"
    /\ currentLanguageCode' = Head(langReqs)
    /\ langReqs' = Tail(langReqs)
    /\ UNCHANGED <<editorLang, fkind, fnode, fctx, fpc, answer, featureFixed>>

\* onHover / onDefinition / onCompletion up to the await of getContext
FeatureRequest(kind, node) ==
    /\ fpc \in {"idle", "answered", "rejected"}
    /\ fkind' = kind
    /\ fnode' = node
    /\ fctx' = "none"
    /\ fpc' = "context"
    /\ answer' = NoAnswer
    /\ UNCHANGED <<languageVars, featureFixed>>

\* getContext rejects: the handler rejects
ContextThrows ==
    /\ fpc = "context"
    /\ "TypeError" \in ContextsFor(fnode)
    /\ fctx' = "TypeError"
    /\ fpc' = "rejected"
    /\ answer' = Rejected
    /\ UNCHANGED <<fkind, fnode, languageVars, featureFixed>>

\* node && node.type === "string" && node.value, JsonAST.isNodeValue(node)
IsStringValue(node) == node.type = "string" /\ node.value # <<>> /\ node.isValue

\* onHover from the return of getContext to its next await or its return
HoverContext(context) ==
    /\ fpc = "context"
    /\ fkind = "hover"
    /\ context \in ContextsFor(fnode) \ {"TypeError"}
    /\ fctx' = context
    /\ IF IsStringValue(fnode) /\ context = "brushes" /\ workspaceFolder
          /\ fnode.value \in DOMAIN texCache
       THEN /\ fpc' = "access"
            /\ UNCHANGED answer
       ELSE /\ fpc' = "answered"
            /\ answer' =
                 IF IsStringValue(fnode) /\ context = "localized_text"
                    /\ getHover(locCache, fnode.value, currentLanguageCode) # Null
                 THEN getHover(locCache, fnode.value, currentLanguageCode)
                 ELSE DefaultHover
    /\ UNCHANGED <<fkind, fnode, languageVars, featureFixed>>

\* TextureManager.getHover after fs.promises.access: the preview, or null
\* and the default hover when the file cannot be accessed
HoverAccess(accessible) ==
    /\ fkind = "hover"
    /\ fpc = "access"
    /\ fpc' = "answered"
    /\ answer' = IF accessible
                 THEN [kind |-> "texture", key |-> fnode.value,
                       path |-> texCache[fnode.value]]
                 ELSE DefaultHover
    /\ UNCHANGED <<fkind, fnode, fctx, languageVars, featureFixed>>

\* the number of characters of a name
RECURSIVE Length(_)
Length(name) == IF name = <<>> THEN 0 ELSE Len(Head(name)) + Length(Tail(name))

\* Range.create({ character: 0, line: 0 }, { character: 0, line: 0 })
ZeroRange ==
    [start |-> [line |-> 0, character |-> 0], end |-> [line |-> 0, character |-> 0]]

\* the text of a JSON file is written one member per line after the line
\* of the opening brace, each key after two blanks: the lines whose text
\* holds the quoted identifier
LinesWith(fs, filePath, identifier) ==
    LET e == EntryAt(fs, filePath)
    IN  IF e.json THEN {i \in DOMAIN e.keys : e.keys[i] = identifier} ELSE {}

\* the for loop over lines of onDefinition: the range of the first line
\* that holds the quoted identifier, the zero range when none does
ScanRange(fs, filePath, identifier) ==
    IF LinesWith(fs, filePath, identifier) = {} THEN ZeroRange
    ELSE LET i == Min(LinesWith(fs, filePath, identifier))
         IN  [start |-> [line |-> i, character |-> 2],
              end |-> [line |-> i, character |-> 2 + Length(identifier) + 2]]

\* a map that keeps the first path only
LocationsFirst(paths, range) ==
    [kind |-> "locations",
     items |-> [i \in {1} |-> [path |-> paths[i], range |-> range]]]

\* paths.map(filePath => Location.create(uri, range))
Locations(paths, range) ==
    [kind |-> "locations",
     items |-> [i \in DOMAIN paths |-> [path |-> paths[i], range |-> range]]]

\* node && node.type === "string" && JsonAST.isNodeValue(node)
IsDefinable(node) == node.type = "string" /\ node.isValue

\* onDefinition from the return of getContext to its next await or its return
DefinitionContext(context) ==
    /\ fpc = "context"
    /\ fkind = "definition"
    /\ context \in ContextsFor(fnode) \ {"TypeError"}
    /\ fctx' = context
    /\ IF IsDefinable(fnode) /\ context = "localized_text"
       THEN IF \/ fnode.value \notin getCache(ccache, "localized_text")
               \/ getPaths(fileIndex, <<currentLanguageCode>>) = Undefined
            THEN /\ fpc' = "answered"
                 /\ answer' = Null
            ELSE /\ fpc' = "read"
                 /\ answer' = [kind |-> "reading",
                               paths |-> getPaths(fileIndex, <<currentLanguageCode>>)]
       ELSE /\ fpc' = "answered"
            /\ answer' =
                 IF /\ IsDefinable(fnode)
                    /\ getPaths(fileIndex, fnode.value) # Undefined
                    /\ Len(getPaths(fileIndex, fnode.value)) > 0
                 THEN Locations(getPaths(fileIndex, fnode.value), ZeroRange)
                 ELSE Null
    /\ UNCHANGED <<fkind, fnode, languageVars, featureFixed>>

\* onDefinition, resumption after readFile(paths[0])
DefinitionRead ==
    /\ fpc = "read"
    /\ fkind = "definition"
    /\ fpc' = "answered"
    /\ answer' = IF Len(answer.paths) > 0
                 THEN Locations(answer.paths,
                                ScanRange(lfs, answer.paths[1], fnode.value))
                 ELSE Null
    /\ UNCHANGED <<fkind, fnode, fctx, languageVars, featureFixed>>

\* jsonLanguageService.doComplete
DefaultCompletion == [kind |-> "suggestions"]

\* CompletionManager.setCompletionList: one item per member of the category
setCompletionList(store, identifier) ==
    {[label |-> e, newText |-> e] : e \in getCache(store, identifier)}

\* e.label.endsWith(".dds") || e.label.endsWith(".png")
IsImage(label) == endsWith(label, <<Dot, "dds">>) \/ endsWith(label, <<Dot, "png">>)

\* path.basename(e.label, path.extname(e.label))
Unextended(label) == SubSeq(label, 1, Len(label) - Len(extname(label)))

\* onCompletion from the return of getContext to its return
CompletionContext(context) ==
    /\ fpc = "context"
    /\ fkind = "completion"
    /\ context \in ContextsFor(fnode) \ {"TypeError"}
    /\ fctx' = context
    /\ fpc' = "answered"
    /\ answer' =
         IF fnode # NoNode /\ context = "localized_text"
         THEN [kind |-> "completion", items |-> setCompletionList(ccache, "localized_text")]
         ELSE IF fnode # NoNode /\ context = "brushes"
         THEN [kind |-> "completion",
               items |-> {[label |-> e.label, newText |-> Unextended(e.label)] :
                             e \in {i \in setCompletionList(ccache, "brushes") :
                                       IsImage(i.label)}}]
         ELSE IF fnode # NoNode /\ context = "unit_skins"
         THEN [kind |-> "completion", items |-> setCompletionList(ccache, "unit_skins")]
         ELSE DefaultCompletion
    /\ UNCHANGED <<fkind, fnode, languageVars, featureFixed>>

FeatureNext ==
    \/ \E l \in FeatureLangs : SelectLanguage(l)
    \/ LanguageAsk
    \/ LanguageAnswer
    \/ LanguageReply
    \/ \E node \in FeatureNodes : FeatureRequest("hover", node)
    \/ ContextThrows
    \/ \E context \in FeatureContexts : HoverContext(context)
    \/ \E accessible \in BOOLEAN : HoverAccess(accessible)
    \/ \E node \in FeatureNodes : FeatureRequest("definition", node)
    \/ \E context \in FeatureContexts : DefinitionContext(context)
    \/ DefinitionRead
    \/ \E node \in FeatureNodes : FeatureRequest("completion", node)
    \/ \E context \in FeatureContexts : CompletionContext(context)

InitFeature ==
    /\ FeatureInit /\ CallInit /\ ClassifyIdle /\ ValidateIdle /\ PopulateIdle
    /\ FindIdle /\ LaterIdle

SpecFeature == InitFeature /\ [][FeatureNext]_vars

---------------------------------------------------------------------------
(* findFiles called alone over directory trees with ignored folders at the
   root and below it, folders that cannot be listed, and a chain of folders
   deeper than searchMaxDepth *)

Chain ==
    << <<"d1">>, <<"d2">>, <<"d3">>, <<"d4">>, <<"d5">>, <<"d6">>, <<"d7">>, <<"d8">> >>

\* the chain runs two levels below the deepest folder findFiles lists
ChainDepth == searchMaxDepth + 2

Lockable == {<<"d2">>, <<"d6">>, <<"side">>}

\* the folder names that are noise: version control, editors, packages
NoiseFolders == {<<Dot, "git">>, <<Dot, "vscode">>, <<Dot, "vs">>, <<"node_modules">>}

\* the folder d(n) within d(n-1), a .unit file in it, and the chain below
RECURSIVE ChainEntries(_, _)
ChainEntries(n, locked) ==
    IF n > ChainDepth THEN <<>>
    ELSE << Dir(SubSeq(Chain, 1, n - 1), Chain[n], Chain[n] \notin locked),
            Plain(SubSeq(Chain, 1, n), N2("deep", "unit")) >>
         \o ChainEntries(n + 1, locked)

\* a tree: ignored is the name of the ignored folders in it, locked the
\* folders that cannot be listed
Tree(ignored, locked) ==
    << Plain(<<>>, N2("top", "unit")),
       Plain(<<>>, N2("top", "png")),
       Dir(<<>>, ignored, TRUE),
       Plain(<<ignored>>, N2("stale", "unit")),
       Dir(<<ignored>>, <<"objects">>, TRUE),
       Plain(<<ignored, <<"objects">> >>, N2("packed", "unit")),
       Dir(<<>>, <<"git">>, TRUE),
       Plain(<< <<"git">> >>, N2("kept", "unit")),
       Dir(<<>>, <<"side">>, <<"side">> \notin locked),
       Plain(<< <<"side">> >>, N2("aside", "unit")),
       Dir(<< <<"d1">> >>, ignored, TRUE),
       Plain(<< <<"d1">>, ignored >>, N2("nested", "unit")) >>
    \o ChainEntries(1, locked)

Suffixes == {<<Dot, "unit">>, <<Dot, "png">>, <<"unit">>}

\* what the call leaves alone
notFind ==
    <<rebuildVars, lastCall, ccache, classifyVars, serverVars, validateVars, llang,
      locpc, populateVars, featureVars, laterVars>>

FindInit ==
    /\ lfs \in {Tree(ignored, locked) : ignored \in NoiseFolders, locked \in SUBSET Lockable}
    /\ llang = Lang
    /\ locpc = "idle"
    /\ wext \in Suffixes
    /\ wfound = <<>>
    /\ wpc = "call"

\* findFiles(rootPath, fileExtension) returns
Find ==
    /\ wpc = "call"
    /\ wfound' = findFiles(lfs, rootPath, wext, 0)
    /\ wpc' = "done"
    /\ UNCHANGED <<lfs, wext, notFind>>

FindNext == Find

InitFind ==
    /\ RebuildInit /\ CallInit /\ CompletionInit /\ ClassifyIdle /\ ServerIdle
    /\ ValidateIdle /\ PopulateIdle /\ FeatureIdle /\ FindInit /\ LaterIdle

SpecFind == InitFind /\ [][FindNext]_vars

---------------------------------------------------------------------------
(* Claims about set *)

\* C8: set(c, items) is a full replace and is idempotent: after the call
\* get(c) has exactly the members of items whatever c held before, no other
\* category changes, and the same call made a second time leaves the store
\* as it was; the same holds for setCache of the completion store.
C8_SetReplaces ==
    [][ /\ lastCall'.op = "set" =>
              /\ CacheGet(cache', lastCall'.cat) = lastCall'.items
              /\ DOMAIN cache' = DOMAIN cache \cup {lastCall'.cat}
              /\ \A k \in DOMAIN cache' \ {lastCall'.cat} : cache'[k] = cache[k]
              /\ lastCall'.repeat => cache' = cache
        /\ lastCall'.op = "setCache" =>
              /\ getCache(ccache', lastCall'.cat) = lastCall'.items
              /\ \A k \in CompletionKeys \ {lastCall'.cat} : ccache'[k] = ccache[k]
              /\ lastCall'.repeat => ccache' = ccache
      ]_vars

\* the same set() made a second time on a category, which holds the one item
\* given, while another category holds every item
C8_Witness ==
    /\ lastCall.op = "set"
    /\ lastCall.repeat
    /\ lastCall.items = {1}
    /\ Members(cache, lastCall.cat) = {1}
    /\ \E k \in DOMAIN cache \ {lastCall.cat} : cache[k] = Items

---------------------------------------------------------------------------
(* Claims about pointer classification *)

\* the annotation a match carries for a property name, "none" without one
Annotation(m, key) ==
    IF /\ "properties" \in DOMAIN m.schema
       /\ key \in DOMAIN m.schema.properties
       /\ "pointer" \in DOMAIN m.schema.properties[key]
    THEN m.schema.properties[key].pointer
    ELSE "none"

\* node n lies in the text of node r
Inside(n, r) ==
    /\ Nodes[n].offset >= Nodes[r].offset
    /\ Nodes[n].offset + Nodes[n].length <= Nodes[r].offset + Nodes[r].length

Disjoint(r1, r2) ==
    \/ Nodes[r1].offset + Nodes[r1].length <= Nodes[r2].offset
    \/ Nodes[r2].offset + Nodes[r2].length <= Nodes[r1].offset

\* a classification of a string value node has ended
ClassifiedString ==
    /\ gpc \in {"done", "rejected"}
    /\ target # 0
    /\ Nodes[target].type = "string"
    /\ ~isKeyNode(target)
    /\ PropertyOf(target) # 0

OwnKey == KeyOf(PropertyOf(target))

\* C9: when the matches are two matches on disjoint regions A and B that
\* annotate the same property name with different categories, a string value
\* of that property inside A is classified with A's annotation in either
\* order of the two; and whatever the matches are, the result is never the
\* annotation of a match whose region the node is outside of, unless a
\* match the node is inside of carries that annotation too.
C9_OffsetSensitive ==
    ClassifiedString =>
      /\ Len(matches) = 2 =>
            \A i \in 1..2 :
               LET A == matches[i]
                   B == matches[3 - i]
               IN  ( /\ Disjoint(A.node, B.node)
                     /\ Inside(target, A.node)
                     /\ Annotation(A, OwnKey) # "none"
                     /\ Annotation(B, OwnKey) # "none"
                     /\ Annotation(A, OwnKey) # Annotation(B, OwnKey) )
                   => result = Annotation(A, OwnKey)
      /\ \A j \in DOMAIN matches :
            ( /\ ~Inside(target, matches[j].node)
              /\ Annotation(matches[j], OwnKey) # "none"
              /\ \A k \in DOMAIN matches :
                    Inside(target, matches[k].node)
                       => Annotation(matches[k], OwnKey) # Annotation(matches[j], OwnKey) )
            => result # Annotation(matches[j], OwnKey)

\* the string "y" of the object of "b" classified by the second of two
\* matches, after the first, on the object of "a" and annotating the same
\* name with another category, was passed over
C9_Witness ==
    /\ ClassifiedString
    /\ target = 18
    /\ Len(matches) = 2
    /\ matches[1].node = 4 /\ matches[2].node = 15
    /\ Annotation(matches[1], OwnKey) = "brushes"
    /\ Annotation(matches[2], OwnKey) = "localized_text"
    /\ result = "localized_text"

\* the matches that lie over the target and annotate the name of its property
Annotating ==
    {j \in DOMAIN matches :
        Inside(target, matches[j].node) /\ Annotation(matches[j], OwnKey) # "none"}

\* C10: when matches cover the target and annotate the name of its owning
\* property, the category returned is that of the first of them in the order
\* of the list; covering matches without an annotation for the name are
\* passed over and do not end the search.
C10_FirstAnnotatedWins ==
    (ClassifiedString /\ Annotating # {}) =>
        result = Annotation(matches[Min(Annotating)], OwnKey)

\* a classification has ended for a node that has an owning property and is
\* not its key
ClassifiedValue ==
    /\ gpc \in {"done", "rejected"}
    /\ target # 0
    /\ ~isKeyNode(target)
    /\ PropertyOf(target) # 0

\* C11: when no match that covers the target carries an annotation for the
\* name of its owning property, the classification is "none" and no error
\* is raised, also when a covering match has a property map without that
\* name or has no property map.
C11_NoneWithoutAnnotation ==
    (ClassifiedValue /\ Annotating = {}) => (gpc = "done" /\ result = "none")

\* the properties whose text the node lies in
EnclosingProperties(n) ==
    {p \in 1..Len(Nodes) : Nodes[p].type = "property" /\ Inside(n, p)}

\* the innermost of them
NearestProperty(n) ==
    CHOOSE p \in EnclosingProperties(n) :
        \A q \in EnclosingProperties(n) : Nodes[p].length <= Nodes[q].length

\* the node is an element of an array
InArray(n) == Nodes[n].parent # 0 /\ Nodes[Nodes[n].parent].type = "array"

\* C12: the classification of an absent node, of the key of a property and
\* of a node without an enclosing property is "none", returned before the
\* matches are asked for; an element of an array under a property is
\* classified from the matches by the name of the innermost enclosing
\* property: when the one match is on a region around it and annotates that
\* name, the result is that annotation.
C12_KeysAndArrays ==
    gpc \in {"early", "done", "rejected"} =>
      /\ (target = 0 \/ isKeyNode(target) \/ EnclosingProperties(target) = {})
            => (gpc = "early" /\ result = "none")
      /\ (target # 0 /\ InArray(target) /\ EnclosingProperties(target) # {})
            => /\ gpc # "early"
               /\ ( /\ Len(matches) = 1
                     /\ Inside(target, matches[1].node)
                     /\ Annotation(matches[1], KeyOf(NearestProperty(target))) # "none" )
                   => result = Annotation(matches[1], KeyOf(NearestProperty(target)))

\* the string "q" of the array of "tags" classified by the annotation of
\* "tags" in a match that annotates "name" otherwise
C12_Witness ==
    /\ gpc = "done"
    /\ target = 12
    /\ Len(matches) = 1
    /\ matches[1].node = 4
    /\ Annotation(matches[1], "name") = "localized_text"
    /\ result = "unit_skins"

---------------------------------------------------------------------------
(* Claims about the index and the caches together *)

\* the categories filled from the names of the .unit, .unit_item and
\* .unit_skin files
FileScanned == {"unit", "unit_item", "unit_skin"}

\* C22: after a completed rebuild every identifier of the unit, unit item
\* and unit skin categories is a key of the Identifier Index, and the paths
\* of that key hold a file of the extension of the category.
C22_CachesWithinIndex ==
    rpc = "done" =>
        \A k \in FileScanned : \A id \in Members(cache, k) :
            /\ getPaths(fileIndex, id) # Undefined
            /\ \E i \in DOMAIN getPaths(fileIndex, id) :
                  extname(basename(getPaths(fileIndex, id)[i])) = ScanExt(k)

---------------------------------------------------------------------------
(* Claims about the joint populations *)

\* the set a task of CompletionManager derives from its own source
CompletionOwn(w, k) ==
    CASE k = "localized_text" -> NewCacheOf[w]["localized_text"]
      [] k = "textures" -> NewCacheOf[w]["texture"]
      [] k = "brushes" -> NewCacheOf[w]["brush"]
      [] k = "unit_skins" -> NewManifestOf[w]["unit_skin"]

CompletionOwnOf ==
    [w \in PopulateWorkspaces |-> [k \in CompletionKeys |-> CompletionOwn(w, k)]]

\* C21: with every source present and the population tasks launched
\* together, under every interleaving of their suspension points no task
\* rejects, a category whose task has ended holds exactly the identifiers
\* derived from its own source, and one whose task has not ended holds
\* nothing; the shared set of the CompletionManager is empty at every
\* suspension point.
C21_OwnSourceOnly ==
    /\ \A k \in CacheTasks :
          /\ cpc[k] # "failed"
          /\ Members(cache, k) = IF cpc[k] = "done" THEN NewCacheOf[ws][k] ELSE {}
    /\ \A k \in CompletionKeys :
          /\ qpc[k] # "failed"
          /\ ccache[k] = IF qpc[k] = "done" THEN CompletionOwnOf[ws][k] ELSE {}
    /\ scratch = {}

\* every task has ended, the last of them after the others, and the
\* categories of the CompletionManager differ from one another
C21_Witness ==
    /\ \A k \in CacheTasks : cpc[k] = "done"
    /\ \A k \in CompletionKeys : qpc[k] = "done"
    /\ \A j, k \in CompletionKeys : j # k => ccache[j] # ccache[k]
    /\ \A k \in CompletionKeys : ccache[k] # {}

---------------------------------------------------------------------------
(* Claims about the language features *)

\* a hover is being answered with a localisation hover in this step
LocalizedHoverStep ==
    /\ fkind = "hover"
    /\ fpc = "context"
    /\ fpc' = "answered"
    /\ answer'.kind = "localization"

\* C23: a localized text hover shows the value of the key in the language
\* selected on the editor side at the time it is answered.
C23_HoverInSelectedLanguage ==
    [][ (/\ LocalizedHoverStep
         /\ <<editorLang>> \in DOMAIN locCache
         /\ fnode.value \in DOMAIN locCache[<<editorLang>>])
           => answer'.text = locCache[<<editorLang>>][fnode.value] ]_vars

\* the hover is on a node for which no preview is due: the category is not
\* one of brushes, textures and localized text, or the value is not known
\* to the texture map or to the localisation keys
NoPreviewDue ==
    \/ fctx \notin {"brushes", "textures", "localized_text"}
    \/ fctx \in {"brushes", "textures"} /\ fnode.value \notin DOMAIN texCache
    \/ fctx = "localized_text" /\ fnode.value \notin knownKeys(locCache)

\* C24: a hover for which no preview is due is answered by the default
\* hover of the JSON language service.
C24_DefaultHover ==
    (fkind = "hover" /\ fpc = "answered" /\ NoPreviewDue) => answer = DefaultHover

\* a hover on a localized text value that is no localisation key, with the
\* localisation loaded
C24_Witness ==
    /\ fkind = "hover" /\ fpc = "answered"
    /\ fctx = "localized_text"
    /\ IsStringValue(fnode)
    /\ knownKeys(locCache) # {}
    /\ fnode.value \notin knownKeys(locCache)
    /\ answer = DefaultHover

\* a definition request on a string value has been answered with locations
LocatedDefinition ==
    /\ fkind = "definition"
    /\ fpc = "answered"
    /\ IsDefinable(fnode)
    /\ answer.kind = "locations"

\* the range of the quoted key in the file at filePath: from its opening
\* quote over the key and its two quotes
KeyRangeIn(filePath, key, range) ==
    /\ range # ZeroRange
    /\ range.start.line \in LinesWith(lfs, filePath, key)
    /\ range.end.line = range.start.line
    /\ range.end.character = range.start.character + Length(key) + 2

\* C25: every location returned for a localized text value lies in a
\* localized_text file, with the range of the quoted key in that file and
\* never the zero range.
C25_LocalizedRange ==
    (LocatedDefinition /\ fctx = "localized_text") =>
        \A i \in DOMAIN answer.items :
            /\ extname(basename(answer.items[i].path)) = <<Dot, "localized_text">>
            /\ KeyRangeIn(answer.items[i].path, fnode.value, answer.items[i].range)

\* onDefinition goes from the return of getContext to its answer or to
\* its next await, for a string value
DefinitionStep ==
    /\ fkind = "definition"
    /\ fpc = "context"
    /\ fpc' \in {"answered", "read"}
    /\ IsDefinable(fnode)

\* C26: for a string value of a category other than localized text the
\* answer is one location per path of the index entry of the value, in the
\* order of the entry, each with the zero range, and no location when the
\* index has no entry; for localized text there is no location when the key
\* is not in the localized text cache or the language has no entry. No
\* error is raised.
C26_IndexLocations ==
    [][ DefinitionStep =>
          /\ fctx' # "localized_text" =>
                /\ fpc' = "answered"
                /\ IF fnode.value \in DOMAIN fileIndex
                   THEN /\ answer'.kind = "locations"
                        /\ Len(answer'.items) = Len(fileIndex[fnode.value])
                        /\ \A i \in DOMAIN answer'.items :
                              /\ answer'.items[i].path = fileIndex[fnode.value][i]
                              /\ answer'.items[i].range = ZeroRange
                   ELSE answer' = Null
          /\ ( /\ fctx' = "localized_text"
               /\ \/ fnode.value \notin ccache["localized_text"]
                  \/ <<currentLanguageCode>> \notin DOMAIN fileIndex )
                => (fpc' = "answered" /\ answer' = Null)
      ]_vars

\* a definition of a unit whose index entry holds several paths
C26_Witness ==
    /\ LocatedDefinition
    /\ fctx = "units"
    /\ Len(answer.items) >= 2
    /\ \A i \in DOMAIN answer.items : answer.items[i].range = ZeroRange

\* the candidates due for a value of a category of the completion store:
\* for the image categories the members that end in an image extension,
\* inserted without it, else every member, inserted as it is
Candidates(c) ==
    IF c \in {"brushes", "textures"}
    THEN {[label |-> e, newText |-> Stem(<<e>>)] : e \in {m \in ccache[c] : IsImage(m)}}
    ELSE {[label |-> e, newText |-> e] : e \in ccache[c]}

\* C27: for a cursor inside a value of a category of the completion store
\* the candidates are the members of the category, one each; for brushes and
\* textures the members that end in .png or .dds, inserted without the
\* extension.
C27_CandidatesAreMembers ==
    (/\ fkind = "completion" /\ fpc = "answered"
     /\ fnode.isValue /\ fctx \in CompletionKeys)
        => (answer.kind = "completion" /\ answer.items = Candidates(fctx))

---------------------------------------------------------------------------
(* Claims about findFiles *)

\* the folders a path lies under, the root left out
FoldersOf(path) == {SubSeq(path, 1, k) : k \in 1..(Len(path) - 1)}

\* the files of the tree whose name ends with the suffix
Matching == {Append(lfs[i].dir, lfs[i].name) :
                i \in {j \in DOMAIN lfs : ~lfs[j].isDir /\ endsWith(lfs[j].name, wext)}}

Listable(folder) == EntryAt(lfs, folder).isDir /\ EntryAt(lfs, folder).readable

\* C28: findFiles returns no path under a folder named .git, .vscode, .vs
\* or node_modules, at the root or below it, whatever the suffix.
C28_NothingUnderIgnored ==
    wpc = "done" =>
        \A path \in SeqToSet(wfound) : \A folder \in FoldersOf(path) :
            Last(folder) \notin NoiseFolders

\* a walk that returned files while the tree holds files of that suffix
\* under ignored folders at the root and below it
C28_Witness ==
    /\ wpc = "done"
    /\ wfound # <<>>
    /\ \E path \in Matching : Len(path) = 2 /\ path[1] \in NoiseFolders
    /\ \E path \in Matching : Len(path) = 3 /\ path[2] \in NoiseFolders
    /\ << <<"git">>, N2("kept", "unit") >> \in SeqToSet(wfound)

\* C29: findFiles returns whatever folders cannot be listed: such a folder
\* contributes no path, and every matching file all of whose folders can be
\* listed, are not ignored and are within the depth is returned.
C29_UnlistableSkipped ==
    /\ wpc \in {"call", "done"}
    /\ wpc = "done" =>
        /\ \A path \in SeqToSet(wfound) : \A folder \in FoldersOf(path) : Listable(folder)
        /\ \A path \in Matching :
              ( /\ \A folder \in FoldersOf(path) :
                      Listable(folder) /\ Last(folder) \notin NoiseFolders
                /\ Len(path) - 1 <= searchMaxDepth )
                 => path \in SeqToSet(wfound)

\* a walk over a tree with a folder that cannot be listed next to one that
\* can, and another below it: the files beside them are returned
C29_Witness ==
    /\ wpc = "done"
    /\ ~Listable(<< <<"side">> >>)
    /\ ~Listable(<< <<"d1">>, <<"d2">> >>)
    /\ << <<"git">>, N2("kept", "unit") >> \in SeqToSet(wfound)
    /\ << <<"d1">>, N2("deep", "unit") >> \in SeqToSet(wfound)
    /\ << <<"side">>, N2("aside", "unit") >> \in Matching

\* the number of folders between the root and a file
LevelOf(path) == Len(path) - 1

\* C30: findFiles returns no file of a folder more than searchMaxDepth
\* levels below the root, and in a tree all of whose folders can be listed
\* it returns every matching file of the folders that are not under an
\* ignored one and are at most searchMaxDepth levels below the root.
C30_DepthBounded ==
    wpc = "done" =>
        /\ \A path \in SeqToSet(wfound) : LevelOf(path) <= searchMaxDepth
        /\ (\A i \in DOMAIN lfs : lfs[i].readable) =>
              \A path \in Matching :
                  ( /\ LevelOf(path) <= searchMaxDepth
                    /\ \A folder \in FoldersOf(path) : Last(folder) \notin NoiseFolders )
                     => path \in SeqToSet(wfound)

\* a walk that returned the file searchMaxDepth levels down while the tree
\* holds a matching file one level further
C30_Witness ==
    /\ wpc = "done"
    /\ \E path \in SeqToSet(wfound) : LevelOf(path) = searchMaxDepth
    /\ \E path \in Matching :
          /\ LevelOf(path) = searchMaxDepth + 1
          /\ \A folder \in FoldersOf(path) : Listable(folder)

---------------------------------------------------------------------------
(* Claims about loadLocalisations *)

\* the files of the workspace whose base name is exactly <lang>.localized_text
ExactFiles ==
    {i \in 1..Len(lfs) : ~lfs[i].isDir /\ lfs[i].name = N2(llang, "localized_text")}

\* C19: after loadLocalisations(root, lang) the localized text category is
\* exactly the key names of the file whose base name is <lang>.localized_text,
\* whatever other files the workspace holds.
C19_KeysOfExactFile ==
    (locpc = "done" /\ ExactFiles # {}) =>
        \E i \in ExactFiles :
            Members(cache, "localized_text") = SeqToSet(lfs[i].keys)

---------------------------------------------------------------------------
(* Claims about validation *)

\* the string values of the document: strings that are not keys
StringValues ==
    {v \in 1..Len(Nodes) : Nodes[v].type = "string" /\ ~isKeyNode(v)}

\* the categories some match annotates the property of value v with, the
\* property lying in the region of the match
AnnotatedWith(v) ==
    {Annotation(matches[i], KeyOf(NearestProperty(v))) : i \in
        {j \in DOMAIN matches : Inside(NearestProperty(v), matches[j].node)}} \ {"none"}

\* the members of the cache of a category, none for a category without a cache
CategoryCache(c) == IF c \in CompletionKeys THEN getCache(ccache, c) ELSE {}

\* how many of the diagnostics sent are at value v for category c
DiagsAt(v, c) ==
    Cardinality({i \in DOMAIN sent.diagnostics : sent.diagnostics[i] = Diagnostic(v, c)})

\* C13: whatever the category a property is annotated with, each of its
\* string values, elements of an array included, that is not a member of the
\* cache of that category has a cross-reference diagnostic at its range.
C13_EveryCategoryChecked ==
    vpc = "done" =>
        \A v \in StringValues : \A c \in AnnotatedWith(v) :
            Nodes[v].value \notin CategoryCache(c) => DiagsAt(v, c) >= 1

\* C14: a value of a property annotated as a localized text pointer has no
\* cross-reference diagnostic when it is a member of the localized text
\* cache and exactly one when it is not, however many matches cover it.
C14_OneLocalizedDiagnostic ==
    vpc = "done" =>
        \A v \in StringValues :
            "localized_text" \in AnnotatedWith(v) =>
                DiagsAt(v, "localized_text") =
                    (IF Nodes[v].value \in getCache(ccache, "localized_text") THEN 0 ELSE 1)

\* C15: a value X of a property annotated as a brush pointer has no missing
\* texture diagnostic while X is in the cache, and exactly one, at the range
\* of the node, when the unchanged document is validated again after X was
\* taken out of the cache.
C15_RoundTrip ==
    vpc = "done" =>
        \A v \in StringValues :
            "brushes" \in AnnotatedWith(v) =>
                /\ Nodes[v].value \in getCache(ccache, "brushes") => DiagsAt(v, "brushes") = 0
                /\ (removed = Nodes[v].value /\ removed \notin getCache(ccache, "brushes"))
                      => DiagsAt(v, "brushes") = 1

\* C16: what is sent for a validation is the schema diagnostics followed by
\* the cross-reference diagnostics: the schema diagnostics are sent however
\* the cross-reference pass ends.
C16_SchemaDiagnosticsSent ==
    vpc \in {"done", "rejected"} =>
        /\ sent.published
        /\ Len(sent.diagnostics) >= Len(schemaDiags)
        /\ SubSeq(sent.diagnostics, 1, Len(schemaDiags)) = schemaDiags
        /\ \A i \in (Len(schemaDiags) + 1)..Len(sent.diagnostics) :
              sent.diagnostics[i].pointer \in WalkCases

\* C33: a cross-reference diagnostic is sent for a value only when a match on
\* the object that holds the property of the value annotates the property
\* with the category of the diagnostic: a match on an object further out, in
\* whose region the property lies, gives it none.
C33_OwnContextOnly ==
    vpc = "done" =>
        \A v \in StringValues : \A c \in WalkCases :
            DiagsAt(v, c) >= 1 =>
                \E j \in DOMAIN matches :
                    /\ matches[j].node = Nodes[NearestProperty(v)].parent
                    /\ Annotation(matches[j], KeyOf(NearestProperty(v))) = c


---------------------------------------------------------------------------
(* Claims about the server *)

\* C2: no validation, definition or completion request reads the Identifier
\* Index or a cache before the first full rebuild (the three loads and the
\* index rebuild) is complete.
C2_NoUnreadyRead == unreadyRead = "none"

\* no validation is in flight for the open document of an initialized server
Quiescent ==
    /\ docOpen
    /\ isInitialized
    /\ \A v \in Versions : vals[v] = "none"

\* C3: diagnostics computed from an older content are never published after
\* diagnostics computed from a newer content of the document, and once no
\* validation is in flight the diagnostics published are those of the
\* latest content.
C3_LatestPublished ==
    /\ published >= maxPublished
    /\ Quiescent => published = docVer


---------------------------------------------------------------------------
(* Schema resolution: schemaRequestService, applyPointers and apply *)

\* the sixteen definitions applyPointers annotates, with the category of each
PointerOf ==
    [n \in {"localized_text_ptr", "file_texture_ptr", "unit_skin_definition_ptr",
            "npc_reward_definition_ptr", "particle_effect_definition_ptr",
            "beam_effect_definition_ptr", "action_data_source_definition_ptr",
            "brush_ptr", "unit_definition_ptr", "buff_definition_ptr",
            "action_value_id", "research_subject_definition_ptr",
            "ability_definition_ptr", "unit_item_definition_ptr",
            "buff_unit_factory_modifier_id", "buff_unit_modifier_id"} |->
        CASE n = "localized_text_ptr" -> "localized_text"
          [] n = "file_texture_ptr" -> "textures"
          [] n = "unit_skin_definition_ptr" -> "unit_skins"
          [] n = "npc_reward_definition_ptr" -> "npc_rewards"
          [] n = "particle_effect_definition_ptr" -> "particle_effects"
          [] n = "beam_effect_definition_ptr" -> "beam_effects"
          [] n = "action_data_source_definition_ptr" -> "action_data_sources"
          [] n = "brush_ptr" -> "brushes"
          [] n = "unit_definition_ptr" -> "units"
          [] n = "buff_definition_ptr" -> "buffs"
          [] n = "action_value_id" -> "action_value_ids"
          [] n = "research_subject_definition_ptr" -> "research_subjects"
          [] n = "ability_definition_ptr" -> "abilities"
          [] n = "unit_item_definition_ptr" -> "unit_items"
          [] n = "buff_unit_factory_modifier_id" -> "buff_unit_factory_modifiers"
          [] n = "buff_unit_modifier_id" -> "buff_unit_modifiers"]

\* an object that keeps nothing of the one it is made from
SpreadNothing(fields, p) == [f \in {"pointer"} |-> p]

\* { ...fields, pointer: p }
Spread(fields, p) ==
    [f \in DOMAIN fields \cup {"pointer"} |-> IF f = "pointer" THEN p ELSE fields[f]]

\* map[name], with undefined spreading to no field at all
FieldsOf(map, name) == IF name \in DOMAIN map THEN map[name] ELSE EmptyMap

\* a root that has no properties to read or to set: the access throws
Throws(schema) == schema.root \in {"null", "boolean"}

\* applyPointers(schema), when the root does not throw; an array under $defs
\* is truthy and takes the sixteen definitions as named properties
applyPointers(schema) ==
    [schema EXCEPT
        !.hasDefs = TRUE,
        !.defs = [n \in DOMAIN schema.defs \cup DOMAIN PointerOf |->
                    IF n \in DOMAIN PointerOf
                    THEN Spread(FieldsOf(schema.defs, n), PointerOf[n])
                    ELSE schema.defs[n]]]

UnitGroup == "unit_skin_definition_group"

\* whether the patch registered for fileName throws on schema
PatchThrows(fileName, schema) ==
    CASE fileName = "unit-schema.json" ->
            \/ UnitGroup \notin DOMAIN schema.defs
            \/ "items" \notin DOMAIN schema.defs[UnitGroup]
      [] fileName = "weapon-schema.json" -> ~schema.hasProps
      [] OTHER -> FALSE

\* apply(fileName, schema): the patch of unit-schema.json annotates the skins
\* of the group's items, that of weapon-schema.json the property name
apply(fileName, schema) ==
    CASE fileName = "unit-schema.json" ->
            [schema EXCEPT !.defs[UnitGroup] =
                [f \in DOMAIN @ \cup {"skins"} |->
                    IF f = "skins" THEN "unit_skins" ELSE @[f]]]
      [] fileName = "weapon-schema.json" ->
            [schema EXCEPT !.props =
                [n \in DOMAIN @ \cup {"name"} |->
                    IF n = "name" THEN Spread(FieldsOf(@, "name"), "localized_text")
                    ELSE @[n]]]
      [] OTHER -> schema

\* what a reader of JSON.stringify(schema) gets: an array is written as its
\* elements alone, so the named properties set on it are not in the text
stringify(schema) ==
    IF schema.root = "array"
    THEN [schema EXCEPT !.hasDefs = FALSE, !.defs = EmptyMap,
                        !.hasProps = FALSE, !.props = EmptyMap]
    ELSE IF schema.defsArray THEN [schema EXCEPT !.defs = EmptyMap]
    ELSE schema

SchemaFiles == {"unit-schema.json", "weapon-schema.json", "research-subject-schema.json"}

\* file: URLs, other URIs that start with "file", and the rest
Schemes == {"file", "filex", "http"}

DefsDraws ==
    { [has |-> FALSE, arr |-> FALSE, defs |-> EmptyMap],
      [has |-> TRUE, arr |-> TRUE, defs |-> EmptyMap],
      [has |-> TRUE, arr |-> FALSE,
       defs |-> ("localized_text_ptr" :> ("type" :> "string"))
                @@ ("vector2" :> ("type" :> "array"))],
      [has |-> TRUE, arr |-> FALSE,
       defs |-> ("brush_ptr" :> (("type" :> "string") @@ ("pointer" :> "stale")))
                @@ (UnitGroup :> ("items" :> "properties"))] }

PropsDraws ==
    { [has |-> FALSE, props |-> EmptyMap],
      [has |-> TRUE, props |-> ("name" :> ("type" :> "string"))] }

\* the values a schema file can parse to
SchemaTexts ==
    { [root |-> "object", hasDefs |-> d.has, defsArray |-> d.arr, defs |-> d.defs,
       hasProps |-> q.has, props |-> q.props] : d \in DefsDraws, q \in PropsDraws }
    \cup { [NoSchema EXCEPT !.root = r] : r \in {"array", "null", "boolean"} }

settled(status, schema) == [status |-> status, schema |-> schema]

earlierVars ==
    <<rebuildVars, lastCall, ccache, classifyVars, serverVars, validateVars,
      localiseVars, populateVars, featureVars, findVars>>

notSchema == <<earlierVars, overlapVars, clientVars>>

\* the language service asks for the schema at a URI
SchemaInit ==
    /\ sreq \in [scheme : Schemes, fileName : SchemaFiles, readable : BOOLEAN,
                 parses : BOOLEAN, text : SchemaTexts]
    /\ sres = Unsettled
    /\ spc = "request"

\* schemaRequestService up to the read it awaits
SchemaRequest ==
    /\ spc = "request"
    /\ IF sreq.scheme \in {"file", "filex"}
       THEN IF sreq.scheme = "file"
            THEN spc' = "read" /\ sres' = sres
            ELSE spc' = "done" /\ sres' = settled("rejected", NoSchema)
       ELSE spc' = "done" /\ sres' = settled("rejected", NoSchema)
    /\ UNCHANGED <<sreq, notSchema>>

\* the rest of schemaRequestService, once readFile settled
SchemaRead ==
    /\ spc = "read"
    /\ spc' = "done"
    /\ sres' =
        IF ~sreq.readable \/ ~sreq.parses \/ Throws(sreq.text)
        THEN settled("rejected", NoSchema)
        ELSE LET schema == applyPointers(sreq.text) IN
             IF PatchThrows(sreq.fileName, schema)
             THEN settled("rejected", NoSchema)
             ELSE settled("resolved", stringify(apply(sreq.fileName, schema)))
    /\ UNCHANGED <<sreq, notSchema>>

SchemaNext == SchemaRequest \/ SchemaRead

\* nothing else than the request is going on
EarlierIdle ==
    /\ RebuildInit /\ CallInit /\ CompletionInit /\ ClassifyIdle /\ ServerIdle
    /\ ValidateIdle /\ LocaliseIdle /\ PopulateIdle /\ FeatureIdle /\ FindIdle

InitSchema == EarlierIdle /\ SchemaInit /\ OverlapIdle /\ ClientIdle

SpecSchema == InitSchema /\ [][SchemaNext]_vars

\* whether schema carries the sixteen annotations
Annotated(schema) ==
    \A n \in DOMAIN PointerOf :
        /\ n \in DOMAIN schema.defs
        /\ "pointer" \in DOMAIN schema.defs[n]
        /\ schema.defs[n]["pointer"] = PointerOf[n]

\* C31: a settled schema request is rejected unless the URI is a file URI whose
\* file was read and parsed, and the schema it resolves with carries the
\* sixteen pointer annotations
C31_ResolvedAnnotated ==
    spc = "done" =>
        /\ sreq.scheme # "file" => sres.status = "rejected"
        /\ ~sreq.readable \/ ~sreq.parses => sres.status = "rejected"
        /\ sres.status = "resolved" => Annotated(sres.schema)

\* a request resolved with a schema that carries no annotation
C31_Unannotated ==
    /\ spc = "done"
    /\ sres.status = "resolved"
    /\ ~Annotated(sres.schema)

PointerHolders(schema, c) ==
    {n \in DOMAIN schema.defs :
        "pointer" \in DOMAIN schema.defs[n] /\ schema.defs[n]["pointer"] = c}

\* C32: on a schema whose root can hold $defs, applyPointers applied twice
\* gives what it gives applied once; every pointer definition keeps the
\* fields it had, with their values but for the pointer itself; the other
\* definitions are unchanged; every category but none is on one definition
C32_IdempotentNonDestructive ==
    (spc # "idle" /\ ~Throws(sreq.text)) =>
        LET before == sreq.text
            once == applyPointers(before)
        IN  /\ applyPointers(once) = once
            /\ \A n \in DOMAIN before.defs :
                IF n \in DOMAIN PointerOf
                THEN /\ DOMAIN before.defs[n] \subseteq DOMAIN once.defs[n]
                     /\ \A f \in DOMAIN before.defs[n] \ {"pointer"} :
                            once.defs[n][f] = before.defs[n][f]
                ELSE once.defs[n] = before.defs[n]
            /\ \A c \in PointerType \ {"none"} :
                Cardinality(PointerHolders(once, c)) = 1
            /\ once.props = before.props /\ once.hasProps = before.hasProps

\* a resolved request for a schema that had a pointer definition with a field
\* of its own and a definition that is no pointer
C32_Witness ==
    /\ spc = "done"
    /\ sres.status = "resolved"
    /\ "localized_text_ptr" \in DOMAIN sreq.text.defs
    /\ "vector2" \in DOMAIN sres.schema.defs
    /\ sres.schema.defs["localized_text_ptr"]["type"] = "string"

\* C34: once onInitialized of a server with a workspace folder has started
\* its loads, isInitialized is eventually set, whatever the workspace holds;
\* once set it stays set, and every change of content from then on starts a
\* validation of the new content.
C34_EventuallyReady ==
    /\ (ipc = "loading") ~> isInitialized
    /\ [][isInitialized => isInitialized']_vars
    /\ [][(isInitialized /\ docVer' # docVer) => vals'[docVer'] = "schema"]_vars

\* C35: in a workspace whose loads all succeed, whenever the document is open
\* with the content of some version, diagnostics computed from that version
\* or a later one are eventually published, unless the document is closed.
C35_NoEditLost ==
    \A v \in Versions :
        (workspaceFolder /\ ws = Intact /\ ipc # "handshake" /\ docOpen /\ docVer = v)
            ~> (~docOpen \/ maxPublished >= v)

\* the keys of the file of the workspace named <lang>.localized_text
KeysOfLanguage(lang) ==
    UNION {SeqToSet(lfs[i].keys) : i \in
        {j \in 1..Len(lfs) : ~lfs[j].isDir /\ lfs[j].name = N2(lang, "localized_text")}}

\* C36: with the workspace loaded and no load in flight, the localized text
\* category that validation and go-to-definition read holds the keys of the
\* file of the server's current language, for every language that has one.
C36_ActiveLanguageKeys ==
    (workspaceFolder /\ currentLanguageCode \in Langs) =>
        getCache(ccache, "localized_text") = KeysOfLanguage(currentLanguageCode)

\* C38: after set(c, get(c)) the category c has the members it had when the
\* call was made.
C38_SetOfGetUnchanged ==
    lastCall.op = "setSame" => CacheGet(cache, lastCall.cat) = lastCall.items

---------------------------------------------------------------------------
(* Two calls of rebuildIndex on one IndexManager, which may overlap: nothing
   in rebuildIndex keeps a second call from starting while one is awaiting.
   The loads that follow the index scan do not touch the index and are taken
   in one step each *)

notOverlap ==
    <<ws, rpc, extIdx, cpc, mpc, lastCall, ccache, classifyVars, serverVars,
      validateVars, localiseVars, populateVars, featureVars, findVars, schemaVars,
      clientVars>>

\* rebuildIndex up to its first await: the three stores are cleared
OverlapStart(c) ==
    /\ opc[c].at = "none"
    /\ manifest' = CacheClear(manifest)
    /\ cache' = CacheClear(cache)
    /\ fileIndex' = EmptyIndex
    /\ opc' = [opc EXCEPT ![c] = [at |-> "index", ext |-> 1]]
    /\ UNCHANGED notOverlap

\* resumption of call c after findFiles(rootPath, extension)
OverlapIndex(c) ==
    /\ opc[c].at = "index"
    /\ fileIndex' = AddAll(fileIndex,
                           findFiles(FSOf[ws], rootPath, fileExtensions[opc[c].ext], 0))
    /\ opc' = [opc EXCEPT ![c] =
                  IF opc[c].ext < Len(fileExtensions)
                  THEN [at |-> "index", ext |-> opc[c].ext + 1]
                  ELSE [at |-> "cache", ext |-> 0]]
    /\ UNCHANGED <<cache, manifest, notOverlap>>

\* await cacheManager.loadCache(rootPath, lang) of call c
OverlapCache(c) ==
    /\ opc[c].at = "cache"
    /\ cache' = [k \in DOMAIN cache \cup CacheTasks |->
                    IF k \in CacheTasks THEN NewCacheOf[ws][k] ELSE cache[k]]
    /\ opc' = [opc EXCEPT ![c] = [at |-> "manifest", ext |-> 0]]
    /\ UNCHANGED <<fileIndex, manifest, notOverlap>>

\* await entityManifestManager.loadCache(rootPath) of call c
OverlapManifest(c) ==
    /\ opc[c].at = "manifest"
    /\ manifest' = [k \in DOMAIN manifest \cup ManifestTasks |->
                       IF k \in ManifestTasks THEN NewManifestOf[ws][k] ELSE manifest[k]]
    /\ opc' = [opc EXCEPT ![c] = [at |-> "done", ext |-> 0]]
    /\ UNCHANGED <<fileIndex, cache, notOverlap>>

OverlapNext ==
    \E c \in OverlapCalls :
        \/ OverlapStart(c)
        \/ OverlapIndex(c)
        \/ OverlapCache(c)
        \/ OverlapManifest(c)

InitOverlap == EarlierIdle /\ SchemaIdle /\ OverlapIdle /\ ClientIdle

SpecOverlap == InitOverlap /\ [][OverlapNext]_vars

\* C37: once every call of rebuildIndex that was made has settled, the index
\* is the index of a single rebuild: each identifier has the enumerated
\* paths that derive it, each once.
C37_SettledIndexExact ==
    (/\ \A c \in OverlapCalls : opc[c].at \in {"none", "done"}
     /\ \E c \in OverlapCalls : opc[c].at = "done")
        => fileIndex = ExpectedIndexOf[ws]

---------------------------------------------------------------------------
(* The client side: ClientManager (client.ts).  A folder or a document is
   the sequence of the segments of its path, so that one URI starts with
   another, both ending with "/", when the segments of the second begin those
   of the first *)

\* uri.startsWith(element), on URIs that end with "/"
startsWith(uri, element) ==
    Len(element) <= Len(uri) /\ SubSeq(uri, 1, Len(element)) = element

\* Workspace.getWorkspaceFolder(uri): the innermost workspace folder that
\* contains uri, as a set of one folder, or of none
getWorkspaceFolder(folders, uri) ==
    LET around == {f \in folders : startsWith(uri, f)}
    IN  {f \in around : \A g \in around : Len(g) <= Len(f)}

\* the folders in a sequence sorted by the length of their URI
RECURSIVE sortByLength(_)
sortByLength(folders) ==
    IF folders = {} THEN <<>>
    ELSE LET f == CHOOSE x \in folders : \A y \in folders : Len(x) <= Len(y)
         IN  <<f>> \o sortByLength(folders \ {f})

\* sortWorkspaceFolders(): the cached list when there is one
sortWorkspaceFolders ==
    IF sortedWorkspaceFolders.defined THEN sortedWorkspaceFolders.list
    ELSE sortByLength(wsFolders)

\* getOuterMostWorkspaceFolder(folder)
getOuterMostWorkspaceFolder(folder) ==
    LET sorted == sortWorkspaceFolders
        hits == {i \in 1..Len(sorted) : startsWith(folder, sorted[i])}
    IN  IF hits = {} THEN {folder}
        ELSE getWorkspaceFolder(wsFolders, sorted[CHOOSE i \in hits : \A j \in hits : i <= j])

ClientDocuments ==
    [languageId : {"soase", "json"}, scheme : {"file", "untitled", "git"},
     path : {<<"a", "f">>, <<"a", "b", "f">>, <<"c", "f">>, <<"c", "d", "f">>,
             <<"d", "f">>}]

notClient == <<earlierVars, schemaVars, overlapVars>>

\* the extension is activated in a window with some workspace folders and no
\* document open
ClientInit ==
    /\ wsFolders \in SUBSET ClientFolders
    /\ clients = {}
    /\ running = [f \in ClientFolders |-> 0]
    /\ defaultClient = FALSE
    /\ sortedWorkspaceFolders = NotSorted

\* didOpenTextDocument(document)
DidOpenTextDocument(document) ==
    /\ IF document.languageId # "soase" \/ document.scheme \notin {"file", "untitled"}
       THEN UNCHANGED clientVars
       ELSE IF document.scheme = "untitled" /\ ~defaultClient
       THEN /\ defaultClient' = TRUE
            /\ UNCHANGED <<wsFolders, clients, running, sortedWorkspaceFolders>>
       ELSE LET inner == IF document.scheme = "file"
                         THEN getWorkspaceFolder(wsFolders, document.path) ELSE {}
            IN  IF inner = {} THEN UNCHANGED clientVars
                ELSE LET folder == CHOOSE f \in UNION
                                      {getOuterMostWorkspaceFolder(g) : g \in inner} : TRUE
                     IN  /\ sortedWorkspaceFolders' =
                                [defined |-> TRUE, list |-> sortWorkspaceFolders]
                         /\ IF folder \notin clients
                            THEN /\ clients' = clients \cup {folder}
                                 /\ running' = [running EXCEPT ![folder] = @ + 1]
                            ELSE UNCHANGED <<clients, running>>
                         /\ UNCHANGED <<wsFolders, defaultClient>>
    /\ UNCHANGED notClient

\* the listener of onDidChangeWorkspaceFolders, for an event that adds and
\* removes folders
DidChangeWorkspaceFolders(added, gone) ==
    /\ added \cup gone # {}
    /\ added \cap wsFolders = {}
    /\ gone \subseteq wsFolders
    /\ wsFolders' = (wsFolders \ gone) \cup added
    /\ sortedWorkspaceFolders' = NotSorted
    /\ clients' = clients \ gone
    /\ running' = [f \in ClientFolders |->
                      IF f \in gone /\ f \in clients THEN running[f] - 1 ELSE running[f]]
    /\ UNCHANGED <<defaultClient, notClient>>

ClientNext ==
    \/ \E document \in ClientDocuments : DidOpenTextDocument(document)
    \/ \E added, gone \in SUBSET ClientFolders : DidChangeWorkspaceFolders(added, gone)

InitClient == EarlierIdle /\ SchemaIdle /\ OverlapIdle /\ ClientInit

SpecClient == InitClient /\ [][ClientNext]_vars

\* C39: no folder with a running client lies inside another folder with a
\* running client, no folder has more than one running client, and a folder
\* that is no workspace folder has no running client and no entry in the
\* client map.
C39_OutermostOnly ==
    /\ \A f, g \in ClientFolders :
          (f # g /\ running[f] > 0 /\ running[g] > 0) => ~startsWith(g, f)
    /\ \A f \in ClientFolders : running[f] <= 1
    /\ \A f \in ClientFolders \ wsFolders : running[f] = 0 /\ f \notin clients

=============================================================================
